---- MODULE Spec2Model ----
(***************************************************************************)
(* Conversation turn engine (ChatWorkflow) of backend/app/chat/workflow.py *)
(* with the Message / Conversation domain model of app/models/message.py.  *)
(*                                                                         *)
(* The engine guards its conversation map and its active-stream set with   *)
(* a threading.RLock and documents its accessors as thread-safe, so a step *)
(* of the model is either one lock-protected section (split in "acquire"   *)
(* and "body + release") or the code a turn runs between two suspension    *)
(* points without the lock.  Streaming turns are async generators: every   *)
(* yield appends one StreamChunk to the turn's event sequence.             *)
(*                                                                         *)
(* Text is a sequence of tokens: "a" is one visible character, " " is one  *)
(* whitespace character and "B" is a block of 10000 visible characters, so *)
(* that the length limits of the code keep their real values.              *)
(***************************************************************************)
EXTENDS Integers, Sequences, FiniteSets, TLC

\* ------------------------------------------------------------------------
\* Bounds of the model
\* ------------------------------------------------------------------------

\* number of fragments (empty ones included) one provider stream delivers at most
MaxFragments == 2

\* number of messages of the conversations get_recent_messages is applied to
MaxMessages == 3

\* number of generate_response invocations made on the provider adapter
MaxInvocations == 3

\* ------------------------------------------------------------------------
\* Processes and identifiers
\* ------------------------------------------------------------------------

StreamTurns == {"s1", "s2"}

NonStreamTurns == {"n1", "n2"}

Clients == {"k1"}

\* callers of the read accessors get_conversation and get_conversation_history
Readers == {"r1", "r2"}

NoOwner == "nobody"

\* conversation ids a request can carry; NoId is request.conversation_id = None
RequestIds == {"c1"}

NoId == "none"

\* f"conv_{uuid.uuid4().hex[:12]}": a fresh id, different for every turn
GenId(t) == "conv_" \o t

ConversationIds == RequestIds \cup {GenId(t) : t \in StreamTurns \cup NonStreamTurns}

\* request.conversation_id or f"conv_{uuid...}"
ResolveId(rid, t) == IF rid = NoId THEN GenId(t) ELSE rid

\* ------------------------------------------------------------------------
\* Text
\* ------------------------------------------------------------------------

SP == " "

BIG == "B"

KILO == "K"

\* the block tokens stand for exactly max_length visible characters: BIG for
\* the 10000 of Message.content, KILO for the 1000 of ChatRequest.message
Weight(tok) ==
    IF tok = BIG THEN 10000
    ELSE IF tok = KILO THEN 1000
    ELSE IF tok = "apology_generate" THEN 24
    ELSE IF tok = "apology_workflow" THEN 19
    ELSE 1

RECURSIVE StrLen(_)
StrLen(s) == IF s = <<>> THEN 0 ELSE Weight(Head(s)) + StrLen(Tail(s))

RECURSIVE LStrip(_)
LStrip(s) == IF s = <<>> THEN <<>>
             ELSE IF Head(s) = SP THEN LStrip(Tail(s)) ELSE s

RECURSIVE RStrip(_)
RStrip(s) == IF s = <<>> THEN <<>>
             ELSE IF s[Len(s)] = SP THEN RStrip(SubSeq(s, 1, Len(s) - 1)) ELSE s

\* str.strip()
Strip(s) == RStrip(LStrip(s))

\* "not v or not v.strip()"
IsBlank(s) == Strip(s) = <<>>

\* messages a request can carry (ChatRequest does not validate on assignment,
\* so the engine can be handed any string)
UserInputs == {<<>>, <<SP>>, <<"a">>, <<"a", SP>>, <<BIG, "a">>}

\* fragments a provider stream can deliver
Fragments == {<<>>, <<"a">>, <<SP>>, <<BIG>>}

\* ------------------------------------------------------------------------
\* Message and Conversation (app/models/message.py)
\* ------------------------------------------------------------------------

MaxContentLength == 10000

MinContentLength == 1

\* MessageValid without validate_content's test for blank content
MessageValid_LengthOnly(v) ==
    /\ StrLen(v) >= MinContentLength
    /\ StrLen(v) <= MaxContentLength

\* Field(min_length=1, max_length=10000) on the raw value, then validate_content
MessageValid(v) ==
    /\ StrLen(v) >= MinContentLength
    /\ StrLen(v) <= MaxContentLength
    /\ ~IsBlank(v)

\* NewMessage whose validator returns v instead of v.strip()
NewMessage_Unstripped(v, mtype, cid, ts, by) ==
    [content |-> v, type |-> mtype, conversation_id |-> cid,
     timestamp |-> ts, turn |-> by]

\* Message(content=..., type=..., conversation_id=...): the stored content is v.strip()
NewMessage(v, mtype, cid, ts, by) ==
    [content |-> Strip(v), type |-> mtype, conversation_id |-> cid,
     timestamp |-> ts, turn |-> by]

\* Conversation(id=conversation_id); times are counted from the creation of
\* the conversation, the only times its timestamps are compared with
NewConversation(cid) ==
    [id |-> cid, messages |-> <<>>, created_at |-> 0, updated_at |-> 0]

\* datetime.utcnow() read during an append made by a turn: the lock sections
\* and the provider calls between two appends of the turns take longer than
\* a tick of the clock, so the reading is later than every time the
\* conversation holds (SpecRecent covers appends within one tick)
Now(conv) == conv.updated_at + 1

\* Conversation.add_message on a valid content
add_message(conv, v, mtype, by) ==
    [conv EXCEPT !.messages = Append(@, NewMessage(v, mtype, conv.id, Now(conv), by)),
                 !.updated_at = Now(conv)]

\* the place the i-th appended message takes in
\* sorted(self.messages, key=lambda m: m.timestamp, reverse=True): behind the
\* messages with a later timestamp and, the sort being stable, behind the
\* messages of the same timestamp that were appended before it
SortedPlace(msgs, i) ==
    1 + Cardinality({j \in 1..Len(msgs) :
                        \/ msgs[j].timestamp > msgs[i].timestamp
                        \/ (msgs[j].timestamp = msgs[i].timestamp /\ j < i)})

\* the message at place p of the sorted list
SortedAt(msgs, p) ==
    msgs[CHOOSE i \in 1..Len(msgs) : SortedPlace(msgs, i) = p]

Min(a, b) == IF a < b THEN a ELSE b

\* get_recent_messages that returns the last messages in the order of their
\* timestamps, the oldest first
get_recent_messages_OldestFirst(conv, limit) ==
    [p \in 1..Min(limit, Len(conv.messages)) |->
        SortedAt(conv.messages, Min(limit, Len(conv.messages)) + 1 - p)]

\* sorted(self.messages, key=timestamp, reverse=True)[:limit]
get_recent_messages(conv, limit) ==
    [p \in 1..Min(limit, Len(conv.messages)) |-> SortedAt(conv.messages, p)]

\* ------------------------------------------------------------------------
\* State
\* ------------------------------------------------------------------------

VARIABLES
    workflow,            \* self.workflow is compiled (async_setup has run)
    conversations,       \* self.conversations: id -> Conversation
    active_streams,      \* keys of self._active_streams
    lock,                \* owner of self._conversation_lock
    streams,             \* one record per process_message_stream call
    turns,               \* one record per process_message call
    clients,             \* callers of clear_conversation and of the read accessors
    adapter,             \* a provider adapter with its RetryHandler
    call                 \* a call of a function or route that changes no
                         \* engine state: its arguments and its outcome

vars == <<workflow, conversations, active_streams, lock, streams, turns, clients,
          adapter, call>>

\* --- StreamChunk events --------------------------------------------------

Event(type, content, category, text, details) ==
    [type |-> type, content |-> content, error_category |-> category,
     text |-> text, error_details |-> details]

StartEvent == Event("start", <<>>, "", "", "")

ChunkEvent(f) == Event("chunk", f, "", "", "")

WarningEvent == Event("warning", <<>>, "", "state_save_failed", "")

EndEvent == Event("end", <<>>, "", "completed", "")

ErrorEvent(category, text, details) == Event("error", <<>>, category, text, details)

\* --- provider failures ---------------------------------------------------

\* an exception raised by generate_response_stream: its class and the
\* keywords its str() contains
ProviderErrors ==
    { [class |-> "TimeoutError", mentions |-> {}],
      [class |-> "ConnectionError", mentions |-> {}],
      [class |-> "ValueError", mentions |-> {"api_key"}],
      [class |-> "ValueError", mentions |-> {"model", "not found"}],
      [class |-> "ValueError", mentions |-> {"model"}],
      [class |-> "Exception", mentions |-> {"rate_limit"}],
      [class |-> "Exception", mentions |-> {"quota", "api_key"}],
      [class |-> "Exception", mentions |-> {}] }

\* the except clauses after the provider call, in their order
\* ErrorCategory whose "except Exception" clause stands before the
\* "except ValueError" clause
ErrorCategory_GenericFirst(e) ==
    IF e.class = "TimeoutError" THEN "ai_model_timeout"
    ELSE IF e.class = "ConnectionError" THEN "network_error"
    ELSE IF e.mentions \cap {"rate_limit", "quota"} # {} THEN "rate_limit_error"
    ELSE "ai_service_error"

\* the except clauses around the provider call, in their order
ErrorCategory(e) ==
    IF e.class = "TimeoutError" THEN "ai_model_timeout"
    ELSE IF e.class = "ConnectionError" THEN "network_error"
    ELSE IF e.class = "ValueError" THEN
        IF e.mentions \cap {"api_key", "unauthorized", "authentication"} # {}
            THEN "authentication_error"
        ELSE IF {"model", "not found"} \subseteq e.mentions THEN "model_error"
        ELSE "parameter_error"
    ELSE IF e.mentions \cap {"rate_limit", "quota"} # {} THEN "rate_limit_error"
    ELSE "ai_service_error"

\* --- conversation store helpers -----------------------------------------

\* "if conversation_id not in self.conversations: self.conversations[id] = Conversation(id=id)"
EnsureConversation(convs, cid) ==
    IF cid \in DOMAIN convs THEN convs ELSE (cid :> NewConversation(cid)) @@ convs

\* ToLangchain with a branch for SYSTEM messages
RECURSIVE ToLangchain_TagsSystem(_)
ToLangchain_TagsSystem(msgs) ==
    IF msgs = <<>> THEN <<>>
    ELSE LET m == Head(msgs) IN
         <<[role |-> IF m.type = "user" THEN "human" ELSE m.type,
            content |-> m.content]>> \o ToLangchain_TagsSystem(Tail(msgs))

\* the for loop that builds langchain_messages: USER -> human, AI -> ai, others dropped
RECURSIVE ToLangchain(_)
ToLangchain(msgs) ==
    IF msgs = <<>> THEN <<>>
    ELSE LET m == Head(msgs) IN
         (IF m.type = "user" THEN <<[role |-> "human", content |-> m.content]>>
          ELSE IF m.type = "ai" THEN <<[role |-> "ai", content |-> m.content]>>
          ELSE <<>>) \o ToLangchain(Tail(msgs))

ContextWindow == 10

MaxConversationMessages == 1000

TrimTo == 500

\* TrimMessages with the "len(conversation.messages) > 1000" branch left out
TrimMessages_KeepsAll(msgs) == msgs

\* conversation.messages = conversation.messages[-500:] when len > 1000
TrimMessages(msgs) ==
    IF Len(msgs) > MaxConversationMessages
    THEN SubSeq(msgs, Len(msgs) - TrimTo + 1, Len(msgs))
    ELSE msgs

\* is_conversation_streaming
is_conversation_streaming(cid) == cid \in active_streams

\* ------------------------------------------------------------------------
\* Provider adapter and RetryHandler (app/chat/ai_providers.py)
\* ------------------------------------------------------------------------

\* DEFAULT_MODEL_MAX_RETRIES
DefaultMaxRetries == 3

\* RetryHandler.__init__
RetryHandler(max_retries) ==
    [max_retries |-> max_retries, current_retry |-> 0, errors |-> <<>>]

\* RetryHandler.on_llm_error: the error is recorded and counted; the sleep
\* that follows while current_retry <= max_retries changes nothing else
on_llm_error(h, error) ==
    [h EXCEPT !.errors = Append(@, error), !.current_retry = @ + 1]

\* RetryHandler.reset
reset(h) == [h EXCEPT !.current_retry = 0, !.errors = <<>>]

\* the adapter classes
Providers == {"OpenAI", "Ollama", "Moonshot"}

\* the adapters whose generate_response_stream begins with
\* "if not self.api_key: raise ValueError(...)"
KeyedProviders == {"OpenAI", "Moonshot"}

\* the tasks that invoke one adapter
Invokers == {"i1", "i2"}

NoResult == [kind |-> "none", provider |-> "none", details |-> <<>>]

\* "return response.content"
Reply(provider) == [kind |-> "reply", provider |-> provider, details |-> <<>>]

\* the string returned by the except clause of generate_response: the
\* provider's apology followed by ", ".join(self.retry_handler.errors) when
\* the list is not empty, the provider's generic apology otherwise
Apology(provider, errors) ==
    [kind |-> IF errors # <<>> THEN "apology_with_details" ELSE "apology",
     provider |-> provider, details |-> errors]

\* an exception that leaves the invocation
Raised(provider, error) ==
    [kind |-> "raised", provider |-> provider, details |-> <<error>>]

\* the end of the fragments of generate_response_stream
Streamed(provider) ==
    [kind |-> "streamed", provider |-> provider, details |-> <<>>]

IdleCall ==
    [pc |-> "idle", invocations |-> 0, attempts |-> 0, result |-> NoResult]

\* an adapter built with max_retries, in front of a chat-completion client
\* whose first fail_count calls fail
NewAdapter(provider, api_key, max_retries, fail_count) ==
    [provider |-> provider, api_key |-> api_key,
     retry_handler |-> RetryHandler(max_retries),
     fail_count |-> fail_count, call_count |-> 0,
     calls |-> [i \in Invokers |-> IdleCall]]

\* the error raised by the next call of the client on behalf of invoker i
ClientError(i) ==
    [by |-> i, invocation |-> adapter.calls[i].invocations,
     call |-> adapter.call_count + 1]

\* no function is being called
NoCall == [fn |-> "none", pc |-> "idle"]

\* ------------------------------------------------------------------------
\* Initial state: the engine right after ChatWorkflow.__init__
\* ------------------------------------------------------------------------

IdleStream ==
    [pc |-> "idle", conversation_id |-> NoId, user_input |-> <<>>,
     full_response |-> <<>>, chunk_index |-> 0, error_occurred |-> FALSE,
     user_message_added |-> FALSE, ai_stream_started |-> FALSE, received |-> 0,
     langchain_messages |-> <<>>, events |-> <<>>]

IdleTurn ==
    [pc |-> "idle", conversation_id |-> NoId, user_input |-> <<>>,
     ai_response |-> <<>>, error |-> "", langchain_messages |-> <<>>,
     final_response |-> [kind |-> "none"]]

IdleClient == [pc |-> "idle", conversation_id |-> NoId, result |-> "none",
               in_flight |-> {}, finished |-> {}, existed |-> FALSE]

\* a caller of a read accessor before its call: found and observed are what
\* the call gives back, final tells whether every non-streaming turn had
\* returned when the accessor ran
IdleReader == [pc |-> "idle", op |-> "none", conversation_id |-> NoId,
               found |-> FALSE, observed |-> 0, final |-> FALSE,
               limit |-> 0, messages |-> <<>>]

Init ==
    /\ workflow = FALSE
    /\ conversations = <<>>
    /\ active_streams = {}
    /\ lock = NoOwner
    /\ streams = [t \in StreamTurns |-> IdleStream]
    /\ turns = [n \in NonStreamTurns |-> IdleTurn]
    /\ clients = [k \in Clients \cup Readers |->
                     IF k \in Clients THEN IdleClient ELSE IdleReader]
    /\ adapter = NewAdapter("OpenAI", TRUE, DefaultMaxRetries, 0)
    /\ call = NoCall

\* ------------------------------------------------------------------------
\* Streaming turn: process_message_stream
\* ------------------------------------------------------------------------

Emit(s, ev) == [s EXCEPT !.events = Append(@, ev)]

\* the generator is started and runs to "yield StreamChunk(type='start')"
StreamStart(t, rid, msg) ==
    /\ streams[t].pc = "idle"
    /\ streams' = [streams EXCEPT ![t] =
            Emit([@ EXCEPT !.pc = "started",
                           !.conversation_id = ResolveId(rid, t),
                           !.user_input = msg], StartEvent)]
    /\ UNCHANGED <<call, adapter, workflow, conversations, active_streams, lock, turns, clients>>

\* StreamValidate without the "len(user_input) > 10000" test
StreamValidate_NoLengthCheck(t) ==
    LET s == streams[t] IN
    /\ s.pc = "started"
    /\ IF IsBlank(s.user_input)
       THEN /\ streams' = [streams EXCEPT ![t] =
                    Emit([s EXCEPT !.pc = "done", !.error_occurred = TRUE],
                         ErrorEvent("input_validation", "input_empty", ""))]
            /\ UNCHANGED lock
       ELSE /\ lock = NoOwner
            /\ lock' = t
            /\ streams' = [streams EXCEPT ![t].pc = "enter_locked"]
    /\ UNCHANGED <<call, adapter, workflow, conversations, active_streams, turns, clients>>

\* step 1 of the generator: input validation; a valid input goes on to
\* _conversation_context.__aenter__, which takes the lock
StreamValidate(t) ==
    LET s == streams[t] IN
    /\ s.pc = "started"
    /\ IF IsBlank(s.user_input) \/ StrLen(s.user_input) > MaxContentLength
       THEN /\ streams' = [streams EXCEPT ![t] =
                    Emit([s EXCEPT !.pc = "done", !.error_occurred = TRUE],
                         ErrorEvent("input_validation",
                                    IF IsBlank(s.user_input) THEN "input_empty"
                                    ELSE "input_too_long", ""))]
            /\ UNCHANGED lock
       ELSE /\ lock = NoOwner
            /\ lock' = t
            /\ streams' = [streams EXCEPT ![t].pc = "enter_locked"]
    /\ UNCHANGED <<call, adapter, workflow, conversations, active_streams, turns, clients>>

\* the generator's outermost "except Exception" clause
UnexpectedError(s, details) ==
    Emit([s EXCEPT !.pc = "done"],
         ErrorEvent("unexpected_error", "unexpected_system_error", details))

\* _conversation_context.__aenter__, inside "with self._conversation_lock"
EnterGuard(t) ==
    LET s == streams[t]
        cid == s.conversation_id IN
    /\ s.pc = "enter_locked"
    /\ lock = t
    /\ lock' = NoOwner
    /\ IF cid \in active_streams
       THEN \* raise ValueError(... is already being streamed): it leaves the
            \* context manager before its try block and reaches the outer handler
            /\ streams' = [streams EXCEPT ![t] = UnexpectedError(s, "already being streamed")]
            /\ UNCHANGED <<conversations, active_streams>>
       ELSE /\ conversations' = EnsureConversation(conversations, cid)
            /\ active_streams' = active_streams \cup {cid}
            /\ streams' = [streams EXCEPT ![t].pc = "guard"]
    /\ UNCHANGED <<call, adapter, workflow, turns, clients>>

\* the body of "async with self._conversation_context(...)": it runs without
\* the lock on the Conversation object the context manager yielded
GuardBody(t) ==
    LET s == streams[t]
        cid == s.conversation_id IN
    /\ s.pc = "guard"
    /\ IF cid \notin DOMAIN conversations
       THEN \* self.conversations[conversation_id] raises KeyError inside the
            \* try/finally of the context manager
            /\ streams' = [streams EXCEPT ![t] =
                    [s EXCEPT !.pc = "exit", !.error_occurred = TRUE]]
            /\ UNCHANGED <<conversations>>
       ELSE IF ~MessageValid(s.user_input)
       THEN \* pydantic's ValidationError is a ValueError
            /\ streams' = [streams EXCEPT ![t] =
                    Emit([s EXCEPT !.pc = "exit", !.error_occurred = TRUE],
                         ErrorEvent("conversation_management", "conversation_state_problem", ""))]
            /\ UNCHANGED <<conversations>>
       ELSE LET added == add_message(conversations[cid], s.user_input, "user", t)
                kept == [added EXCEPT !.messages = TrimMessages(@)]
                ctx == ToLangchain(get_recent_messages(kept, ContextWindow))
            IN
            /\ conversations' = [conversations EXCEPT ![cid] = kept]
            /\ streams' = [streams EXCEPT ![t] =
                    IF ctx = <<>>
                    THEN Emit([s EXCEPT !.pc = "exit", !.error_occurred = TRUE,
                                        !.user_message_added = TRUE],
                              ErrorEvent("conversation_management",
                                         "conversation_state_problem", ""))
                    ELSE [s EXCEPT !.pc = "exit", !.user_message_added = TRUE,
                                   !.langchain_messages = ctx]]
    /\ UNCHANGED <<call, adapter, workflow, active_streams, lock, turns, clients>>

\* the finally clause of _conversation_context takes the lock
ExitAcquire(t) ==
    /\ streams[t].pc = "exit"
    /\ lock = NoOwner
    /\ lock' = t
    /\ streams' = [streams EXCEPT ![t].pc = "exit_locked"]
    /\ UNCHANGED <<call, adapter, workflow, conversations, active_streams, turns, clients>>

\* ExitGuard with the pop of the finally clause left out
ExitGuard_KeepsMark(t) ==
    LET s == streams[t] IN
    /\ s.pc = "exit_locked"
    /\ lock = t
    /\ lock' = NoOwner
    /\ streams' = [streams EXCEPT ![t].pc = IF s.error_occurred THEN "done" ELSE "provider"]
    /\ UNCHANGED <<call, adapter, workflow, conversations, active_streams, turns, clients>>

\* self._active_streams.pop(conversation_id, None)
ExitGuard(t) ==
    LET s == streams[t] IN
    /\ s.pc = "exit_locked"
    /\ lock = t
    /\ lock' = NoOwner
    /\ active_streams' = active_streams \ {s.conversation_id}
    /\ streams' = [streams EXCEPT ![t] =
            IF s.error_occurred
            THEN (IF s.events[Len(s.events)].type = "error"
                  THEN [s EXCEPT !.pc = "done"]
                  ELSE UnexpectedError(s, "KeyError"))
            ELSE [s EXCEPT !.pc = "provider"]]
    /\ UNCHANGED <<call, adapter, workflow, conversations, turns, clients>>

\* --- step 4: "async for chunk_content in self.ai_model.generate_response_stream(...)"

\* ProviderFragment without the "if chunk_content:" test: an empty fragment
\* is yielded as a chunk too
ProviderFragment_YieldsEmpty(t, f) ==
    LET s == streams[t] IN
    /\ s.pc \in {"provider", "chunk_yielded"}
    /\ s.received < MaxFragments
    /\ streams' = [streams EXCEPT ![t] =
            LET got == [s EXCEPT !.ai_stream_started = TRUE, !.received = @ + 1] IN
            Emit([got EXCEPT !.pc = "chunk_yielded",
                             !.full_response = @ \o f,
                             !.chunk_index = @ + 1], ChunkEvent(f))]
    /\ UNCHANGED <<call, adapter, workflow, conversations, active_streams, lock, turns, clients>>

\* the provider delivers one more fragment
ProviderFragment(t, f) ==
    LET s == streams[t] IN
    /\ s.pc \in {"provider", "chunk_yielded"}
    /\ s.received < MaxFragments
    /\ streams' = [streams EXCEPT ![t] =
            LET got == [s EXCEPT !.ai_stream_started = TRUE, !.received = @ + 1] IN
            IF f # <<>>
            THEN Emit([got EXCEPT !.pc = "chunk_yielded",
                                  !.full_response = @ \o f,
                                  !.chunk_index = @ + 1], ChunkEvent(f))
            ELSE [got EXCEPT !.pc = "provider"]]
    /\ UNCHANGED <<call, adapter, workflow, conversations, active_streams, lock, turns, clients>>

\* ProviderEnd that returns on an empty response without yielding the error
ProviderEnd_Silent(t) ==
    LET s == streams[t] IN
    /\ s.pc \in {"provider", "chunk_yielded"}
    /\ streams' = [streams EXCEPT ![t] =
            IF ~s.ai_stream_started \/ s.full_response = <<>>
            THEN [s EXCEPT !.pc = "done", !.error_occurred = TRUE]
            ELSE [s EXCEPT !.pc = "save"]]
    /\ UNCHANGED <<call, adapter, workflow, conversations, active_streams, lock, turns, clients>>

\* the provider's stream is exhausted
ProviderEnd(t) ==
    LET s == streams[t] IN
    /\ s.pc \in {"provider", "chunk_yielded"}
    /\ streams' = [streams EXCEPT ![t] =
            IF ~s.ai_stream_started \/ s.full_response = <<>>
            THEN Emit([s EXCEPT !.pc = "done", !.error_occurred = TRUE],
                      ErrorEvent("ai_model_response", "no_response_generated", ""))
            ELSE [s EXCEPT !.pc = "save"]]
    /\ UNCHANGED <<call, adapter, workflow, conversations, active_streams, lock, turns, clients>>

\* ProviderRaise whose except clause yields the error and falls through to
\* the save step instead of returning
ProviderRaise_NoReturn(t, e) ==
    LET s == streams[t] IN
    /\ s.pc \in {"provider", "chunk_yielded"}
    /\ streams' = [streams EXCEPT ![t] =
            Emit([s EXCEPT !.pc = IF s.full_response = <<>> THEN "done" ELSE "save"],
                 ErrorEvent(ErrorCategory(e), ErrorCategory(e), e.class))]
    /\ UNCHANGED <<call, adapter, workflow, conversations, active_streams, lock, turns, clients>>

\* ProviderRaise that takes the turn's user message out of the conversation
\* before it reports the error
ProviderRaise_RollsBack(t, e) ==
    LET s == streams[t] IN
    /\ s.pc \in {"provider", "chunk_yielded"}
    /\ streams' = [streams EXCEPT ![t] =
            Emit([s EXCEPT !.pc = "done", !.error_occurred = TRUE],
                 ErrorEvent(ErrorCategory(e), ErrorCategory(e), e.class))]
    /\ conversations' = [c \in DOMAIN conversations |->
            [conversations[c] EXCEPT !.messages = SelectSeq(@, LAMBDA m : m.turn # t)]]
    /\ UNCHANGED <<call, adapter, workflow, active_streams, lock, turns, clients>>

\* the provider's stream raises
ProviderRaise(t, e) ==
    LET s == streams[t] IN
    /\ s.pc \in {"provider", "chunk_yielded"}
    /\ streams' = [streams EXCEPT ![t] =
            Emit([s EXCEPT !.pc = "done", !.error_occurred = TRUE],
                 ErrorEvent(ErrorCategory(e), ErrorCategory(e), e.class))]
    /\ UNCHANGED <<call, adapter, workflow, conversations, active_streams, lock, turns, clients>>

\* StreamCancel where CancelledError is an Exception: the "except Exception"
\* clause around the provider call reports it
StreamCancel_AsException(t) ==
    LET s == streams[t] IN
    /\ s.pc \in {"provider", "chunk_yielded"}
    /\ streams' = [streams EXCEPT ![t] =
            Emit([s EXCEPT !.pc = "done", !.error_occurred = TRUE],
                 ErrorEvent("ai_service_error", "ai_service_error", "CancelledError"))]
    /\ UNCHANGED <<call, adapter, workflow, conversations, active_streams, lock, turns, clients>>

\* the consuming task is cancelled while the generator awaits the provider:
\* "except asyncio.CancelledError"
StreamCancel(t) ==
    LET s == streams[t] IN
    /\ s.pc \in {"provider", "chunk_yielded"}
    /\ streams' = [streams EXCEPT ![t] =
            Emit([s EXCEPT !.pc = "done"],
                 ErrorEvent("client_disconnection", "request_cancelled", "CancelledError"))]
    /\ UNCHANGED <<call, adapter, workflow, conversations, active_streams, lock, turns, clients>>

\* the consumer stops pulling and the generator, suspended at a yield, is
\* closed: GeneratorExit passes every except clause
StreamClose(t) ==
    LET s == streams[t] IN
    /\ s.pc \in {"started", "chunk_yielded", "warning_yielded"}
    /\ streams' = [streams EXCEPT ![t].pc = "closed"]
    /\ UNCHANGED <<call, adapter, workflow, conversations, active_streams, lock, turns, clients>>

\* --- step 5: self._safe_add_message(conversation_id, full_response, AI)

SaveAcquire(t) ==
    /\ streams[t].pc = "save"
    /\ lock = NoOwner
    /\ lock' = t
    /\ streams' = [streams EXCEPT ![t].pc = "save_locked"]
    /\ UNCHANGED <<call, adapter, workflow, conversations, active_streams, turns, clients>>

\* SafeAddStore without the "if conversation_id not in self.conversations"
\* test: every call stores a new Conversation under the id
SafeAddStore_Recreate(convs, cid, v, mtype, by) ==
    LET fresh == [c \in DOMAIN convs \cup {cid} |->
                     IF c = cid THEN NewConversation(cid) ELSE convs[c]] IN
    IF MessageValid(v)
    THEN [fresh EXCEPT ![cid] = add_message(@, v, mtype, by)]
    ELSE fresh

\* _safe_add_message: the store after the call
SafeAddStore(convs, cid, v, mtype, by) ==
    LET ensured == EnsureConversation(convs, cid) IN
    IF MessageValid(v)
    THEN [ensured EXCEPT ![cid] = add_message(@, v, mtype, by)]
    ELSE ensured

\* the body of _safe_add_message, then step 6 when the save succeeded
\* (yield 'end') or the yield of 'warning' when it raised
SaveResponse(t) ==
    LET s == streams[t]
        cid == s.conversation_id IN
    /\ s.pc = "save_locked"
    /\ lock = t
    /\ lock' = NoOwner
    /\ conversations' = SafeAddStore(conversations, cid, s.full_response, "ai", t)
    /\ streams' = [streams EXCEPT ![t] =
            IF MessageValid(s.full_response)
            THEN Emit([s EXCEPT !.pc = "done"], EndEvent)
            ELSE Emit([s EXCEPT !.pc = "warning_yielded"], WarningEvent)]
    /\ UNCHANGED <<call, adapter, workflow, active_streams, turns, clients>>

\* step 6 after a warning: "if not error_occurred: yield StreamChunk(type='end')"
StreamEnd(t) ==
    LET s == streams[t] IN
    /\ s.pc = "warning_yielded"
    /\ streams' = [streams EXCEPT ![t] =
            IF ~s.error_occurred THEN Emit([s EXCEPT !.pc = "done"], EndEvent)
            ELSE [s EXCEPT !.pc = "done"]]
    /\ UNCHANGED <<call, adapter, workflow, conversations, active_streams, lock, turns, clients>>

\* ------------------------------------------------------------------------
\* clear_conversation
\* ------------------------------------------------------------------------

\* turns whose generator has yielded 'start' and has not ended yet
StreamsInFlight(cid) ==
    {t \in StreamTurns : /\ streams[t].conversation_id = cid
                         /\ streams[t].pc \notin {"idle", "done", "closed"}}

\* turns that ran to their terminal event
StreamsFinished(cid) ==
    {t \in StreamTurns : /\ streams[t].conversation_id = cid
                         /\ streams[t].pc = "done"}

\* the call reaches "with self._conversation_lock"
ClearAcquire(k, cid) ==
    /\ clients[k].pc = "idle"
    /\ lock = NoOwner
    /\ lock' = k
    /\ clients' = [clients EXCEPT ![k] =
            [IdleClient EXCEPT !.pc = "locked", !.conversation_id = cid]]
    /\ UNCHANGED <<call, adapter, workflow, conversations, active_streams, streams, turns>>

\* ClearResult without the test of the active-stream set
ClearResult_IgnoresStreaming(cid) ==
    cid \in DOMAIN conversations

\* what clear_conversation returns
ClearResult(cid) ==
    IF cid \in active_streams THEN FALSE
    ELSE cid \in DOMAIN conversations

\* Without that empties the whole map
Without_Everything(convs, cid) == <<>>

Without(convs, cid) == [c \in DOMAIN convs \ {cid} |-> convs[c]]

\* the body of clear_conversation
clear_conversation(k) ==
    LET cid == clients[k].conversation_id IN
    /\ clients[k].pc = "locked"
    /\ lock = k
    /\ lock' = NoOwner
    /\ conversations' = IF ClearResult(cid) THEN Without(conversations, cid)
                        ELSE conversations
    /\ clients' = [clients EXCEPT ![k] =
            [pc |-> "idle", conversation_id |-> cid,
             result |-> IF ClearResult(cid) THEN "True" ELSE "False",
             in_flight |-> StreamsInFlight(cid), finished |-> StreamsFinished(cid),
             existed |-> cid \in DOMAIN conversations]]
    /\ UNCHANGED <<call, adapter, workflow, active_streams, streams, turns>>

\* ------------------------------------------------------------------------
\* Non-streaming turn: process_message and the four nodes of the graph
\* ------------------------------------------------------------------------

\* the fixed text in front of the error in the two apologies; their weights
\* are the lengths of the two prefixes
GENERATE_APOLOGY == "apology_generate"

WORKFLOW_APOLOGY == "apology_workflow"

\* replies generate_response can return
Replies == {<<>>, <<"a">>, <<SP>>, <<"a", SP>>, <<BIG, "a">>}

\* str(e) of an exception generate_response can raise
ErrorTexts == {<<"a">>, <<BIG>>}

\* the ChatResponse of the "except Exception" clause of process_message
DegradedResponse(cid, err) ==
    [kind |-> "degraded", response |-> <<WORKFLOW_APOLOGY>>, error |-> err,
     conversation_id |-> cid, processing_time |-> "0.0"]

\* the ChatResponse _format_output_node builds
FinalResponse(cid, reply) ==
    [kind |-> "final", response |-> reply, error |-> "",
     conversation_id |-> cid, processing_time |-> "measured"]

\* WorkflowError whose except clause catches RuntimeError only: any other
\* exception leaves process_message
WorkflowError_RuntimeErrorOnly(s, err) ==
    IF err = "RuntimeError"
    THEN [s EXCEPT !.pc = "done",
                   !.final_response = DegradedResponse(s.conversation_id, err)]
    ELSE [s EXCEPT !.pc = "raised"]

\* the "except Exception" clause of process_message: the turn ends with the
\* degraded response
WorkflowError(s, err) ==
    [s EXCEPT !.pc = "done",
              !.final_response = DegradedResponse(s.conversation_id, err)]

\* async_setup
AsyncSetup ==
    /\ workflow = FALSE
    /\ workflow' = TRUE
    /\ UNCHANGED <<call, adapter, conversations, active_streams, lock, streams, turns, clients>>

\* process_message up to the first lock section: the set-up check and the
\* emptiness check of _process_input_node
TurnStart(n, rid, msg) ==
    /\ turns[n].pc = "idle"
    /\  LET cid == ResolveId(rid, n)
            begun == [turns[n] EXCEPT !.conversation_id = cid, !.user_input = msg] IN
        turns' = [turns EXCEPT ![n] =
            IF ~workflow
            THEN WorkflowError(begun, "RuntimeError")
            ELSE IF IsBlank(msg)
            THEN WorkflowError(begun, "ValueError")
            ELSE [begun EXCEPT !.pc = "add_user"]]
    /\ UNCHANGED <<call, adapter, workflow, conversations, active_streams, lock, streams, clients>>

\* a node reaches "with self._conversation_lock"
TurnAcquire(n) ==
    /\ turns[n].pc \in {"add_user", "ctx", "add_ai"}
    /\ lock = NoOwner
    /\ lock' = n
    /\ turns' = [turns EXCEPT ![n].pc = @ \o "_locked"]
    /\ UNCHANGED <<call, adapter, workflow, conversations, active_streams, streams, clients>>

\* _process_input_node: self._safe_add_message(conversation_id, user_input, USER)
ProcessInput(n) ==
    LET s == turns[n]
        cid == s.conversation_id IN
    /\ s.pc = "add_user_locked"
    /\ lock = n
    /\ lock' = NoOwner
    /\ conversations' = SafeAddStore(conversations, cid, s.user_input, "user", n)
    /\ turns' = [turns EXCEPT ![n] =
            IF MessageValid(s.user_input)
            THEN [s EXCEPT !.pc = "ctx"]
            ELSE WorkflowError(s, "ValidationError")]
    /\ UNCHANGED <<call, adapter, workflow, active_streams, streams, clients>>

\* _safe_get_recent_messages
SafeRecentMessages(cid, limit) ==
    IF cid \in DOMAIN conversations
    THEN get_recent_messages(conversations[cid], limit)
    ELSE <<>>

\* _manage_context_node
ManageContext(n) ==
    LET s == turns[n] IN
    /\ s.pc = "ctx_locked"
    /\ lock = n
    /\ lock' = NoOwner
    /\ turns' = [turns EXCEPT ![n] =
            [s EXCEPT !.pc = "generate",
                      !.langchain_messages =
                          ToLangchain(SafeRecentMessages(s.conversation_id, ContextWindow))]]
    /\ UNCHANGED <<call, adapter, workflow, conversations, active_streams, streams, clients>>

\* _generate_response_node: the provider returns a reply or raises
GenerateResponse(n, r) ==
    LET s == turns[n] IN
    /\ s.pc = "generate"
    /\ turns' = [turns EXCEPT ![n] = [s EXCEPT !.pc = "add_ai", !.ai_response = r]]
    /\ UNCHANGED <<call, adapter, workflow, conversations, active_streams, lock, streams, clients>>

\* _generate_response_node when generate_response raises an exception whose
\* str() is e: the apology replaces the reply
GenerateFailure(n, e) ==
    LET s == turns[n] IN
    /\ s.pc = "generate"
    /\ turns' = [turns EXCEPT ![n] =
            [s EXCEPT !.pc = "add_ai", !.ai_response = <<GENERATE_APOLOGY>> \o e,
                      !.error = "Exception"]]
    /\ UNCHANGED <<call, adapter, workflow, conversations, active_streams, lock, streams, clients>>

\* _format_output_node: self._safe_add_message(conversation_id, ai_response, AI)
FormatOutput(n) ==
    LET s == turns[n]
        cid == s.conversation_id IN
    /\ s.pc = "add_ai_locked"
    /\ lock = n
    /\ lock' = NoOwner
    /\ conversations' = SafeAddStore(conversations, cid, s.ai_response, "ai", n)
    /\ turns' = [turns EXCEPT ![n] =
            IF MessageValid(s.ai_response)
            THEN [s EXCEPT !.pc = "done", !.final_response = FinalResponse(cid, s.ai_response)]
            ELSE WorkflowError(s, "ValidationError")]
    /\ UNCHANGED <<call, adapter, workflow, active_streams, streams, clients>>

\* ------------------------------------------------------------------------
\* Read accessors: get_conversation and get_conversation_history
\* ------------------------------------------------------------------------

\* the default limit of get_conversation_history
HistoryLimit == 10

ReadOps == {"get_conversation", "get_conversation_history"}

\* no non-streaming turn is between the call and the return of process_message
Quiescent == \A n \in NonStreamTurns : turns[n].pc \in {"idle", "done"}

\* every process_message call has returned
AllReturned == \A n \in NonStreamTurns : turns[n].pc = "done"

\* the accessor reaches "with self._conversation_lock"
ReadAcquire(r, cid, op) ==
    /\ clients[r].pc = "idle"
    /\ lock = NoOwner
    /\ lock' = r
    /\ clients' = [clients EXCEPT ![r] =
            [IdleReader EXCEPT !.pc = "locked", !.op = op, !.conversation_id = cid]]
    /\ UNCHANGED <<call, adapter, workflow, conversations, active_streams, streams, turns>>

\* get_conversation: _safe_get_conversation returns the stored Conversation
\* object or None
get_conversation(r) ==
    LET cid == clients[r].conversation_id IN
    /\ clients[r].pc = "locked"
    /\ clients[r].op = "get_conversation"
    /\ lock = r
    /\ lock' = NoOwner
    /\ clients' = [clients EXCEPT ![r] =
            [@ EXCEPT !.pc = IF cid \in DOMAIN conversations
                              THEN "has_conversation" ELSE "returned",
                      !.found = cid \in DOMAIN conversations,
                      !.final = AllReturned]]
    /\ UNCHANGED <<call, adapter, workflow, conversations, active_streams, streams, turns>>

\* the caller of get_conversation reads len(conversation.messages) of the
\* object it was given, after the lock was released (the object stays the
\* stored one as long as no clear_conversation runs)
CountMessages(r) ==
    LET cid == clients[r].conversation_id IN
    /\ clients[r].pc = "has_conversation"
    /\ cid \in DOMAIN conversations
    /\ clients' = [clients EXCEPT ![r] =
            [@ EXCEPT !.pc = "returned",
                      !.observed = Len(conversations[cid].messages)]]
    /\ UNCHANGED <<call, adapter, workflow, conversations, active_streams, lock, streams, turns>>

\* get_conversation_history: _safe_get_recent_messages, and the caller's
\* len() of the list it returns
get_conversation_history(r) ==
    LET cid == clients[r].conversation_id
        messages == IF cid \in DOMAIN conversations
                    THEN get_recent_messages(conversations[cid], HistoryLimit)
                    ELSE <<>> IN
    /\ clients[r].pc = "locked"
    /\ clients[r].op = "get_conversation_history"
    /\ lock = r
    /\ lock' = NoOwner
    /\ clients' = [clients EXCEPT ![r] =
            [@ EXCEPT !.pc = "returned",
                      !.found = cid \in DOMAIN conversations,
                      !.observed = Len(messages),
                      !.final = AllReturned]]
    /\ UNCHANGED <<call, adapter, workflow, conversations, active_streams, streams, turns>>

\* a direct call of Conversation.get_recent_messages(limit) on a stored
\* conversation, as the unit test of the model makes it
RecentCall(r, cid, limit) ==
    /\ clients[r].pc = "idle"
    /\ cid \in DOMAIN conversations
    /\ clients' = [clients EXCEPT ![r] =
            [IdleReader EXCEPT !.pc = "returned", !.op = "get_recent_messages",
                               !.conversation_id = cid, !.found = TRUE,
                               !.limit = limit,
                               !.messages = get_recent_messages(conversations[cid], limit),
                               !.observed = Len(get_recent_messages(conversations[cid], limit))]]
    /\ UNCHANGED <<call, adapter, workflow, conversations, active_streams, lock, streams, turns>>

\* ------------------------------------------------------------------------
\* Aggregate generate_response of a provider adapter
\* ------------------------------------------------------------------------

\* generate_response up to the call of the client: self.retry_handler.reset()
AdapterGenerateStart(i) ==
    /\ adapter.calls[i].pc \in {"idle", "returned"}
    /\ adapter.calls[i].invocations < MaxInvocations
    /\ adapter' = [adapter EXCEPT !.retry_handler = reset(@),
                                  !.calls[i] = [pc |-> "invoking",
                                                invocations |-> @.invocations + 1,
                                                attempts |-> 0,
                                                result |-> NoResult]]
    /\ UNCHANGED <<call, workflow, conversations, active_streams, lock, streams, turns, clients>>

\* "response = await self.llm.ainvoke(messages)" answers:
\* "return response.content"
AdapterInvokeSucceeds(i) ==
    /\ adapter.calls[i].pc = "invoking"
    /\ adapter.call_count >= adapter.fail_count
    /\ adapter' = [adapter EXCEPT !.call_count = @ + 1,
                                  !.calls[i].pc = "returned",
                                  !.calls[i].attempts = @ + 1,
                                  !.calls[i].result = Reply(adapter.provider)]
    /\ UNCHANGED <<call, workflow, conversations, active_streams, lock, streams, turns, clients>>

\* the except clause of generate_response raises what it caught
AdapterInvokeFails_Reraises(i, reported) ==
    /\ adapter.calls[i].pc = "invoking"
    /\ adapter.call_count < adapter.fail_count
    /\  LET h == IF reported
                 THEN on_llm_error(adapter.retry_handler, ClientError(i))
                 ELSE adapter.retry_handler IN
        adapter' = [adapter EXCEPT !.call_count = @ + 1,
                                   !.retry_handler = h,
                                   !.calls[i].pc = "returned",
                                   !.calls[i].attempts = @ + 1,
                                   !.calls[i].result =
                                       Raised(adapter.provider, ClientError(i))]
    /\ UNCHANGED <<call, workflow, conversations, active_streams, lock, streams, turns, clients>>

\* "await self.llm.ainvoke(messages)" raises, after the client library has or
\* has not reported the error to the callback; the except clause returns the
\* apology, with the recorded errors when there are some
AdapterInvokeFails(i, reported) ==
    /\ adapter.calls[i].pc = "invoking"
    /\ adapter.call_count < adapter.fail_count
    /\  LET h == IF reported
                 THEN on_llm_error(adapter.retry_handler, ClientError(i))
                 ELSE adapter.retry_handler IN
        adapter' = [adapter EXCEPT !.call_count = @ + 1,
                                   !.retry_handler = h,
                                   !.calls[i].pc = "returned",
                                   !.calls[i].attempts = @ + 1,
                                   !.calls[i].result =
                                       Apology(adapter.provider, h.errors)]
    /\ UNCHANGED <<call, workflow, conversations, active_streams, lock, streams, turns, clients>>

\* ------------------------------------------------------------------------
\* Streaming generate_response_stream of a provider adapter, from its first
\* resumption to its end
\* ------------------------------------------------------------------------

\* the body up to "async for chunk in self.llm.astream(messages)": the
\* adapters with a key raise ValueError when it is not set, before the reset
AdapterStreamStart(i) ==
    /\ adapter.calls[i].pc \in {"idle", "returned"}
    /\ adapter.calls[i].invocations < MaxInvocations
    /\ IF adapter.provider \in KeyedProviders /\ ~adapter.api_key
       THEN adapter' = [adapter EXCEPT
                !.calls[i] = [pc |-> "returned",
                              invocations |-> @.invocations + 1,
                              attempts |-> 0,
                              result |-> Raised(adapter.provider, "ValueError")]]
       ELSE adapter' = [adapter EXCEPT
                !.retry_handler = reset(@),
                !.calls[i] = [pc |-> "streaming",
                              invocations |-> @.invocations + 1,
                              attempts |-> 0,
                              result |-> NoResult]]
    /\ UNCHANGED <<call, workflow, conversations, active_streams, lock, streams, turns, clients>>

\* self.llm.astream(messages) yields its fragments and ends
AdapterStreamEnds(i) ==
    /\ adapter.calls[i].pc = "streaming"
    /\ adapter.call_count >= adapter.fail_count
    /\ adapter' = [adapter EXCEPT !.call_count = @ + 1,
                                  !.calls[i].pc = "returned",
                                  !.calls[i].attempts = @ + 1,
                                  !.calls[i].result = Streamed(adapter.provider)]
    /\ UNCHANGED <<call, workflow, conversations, active_streams, lock, streams, turns, clients>>

\* self.llm.astream(messages) raises: each except clause raises a classified
\* exception built from str(e)
AdapterStreamFails(i, reported) ==
    /\ adapter.calls[i].pc = "streaming"
    /\ adapter.call_count < adapter.fail_count
    /\ adapter' = [adapter EXCEPT
            !.call_count = @ + 1,
            !.retry_handler = IF reported THEN on_llm_error(@, ClientError(i))
                              ELSE @,
            !.calls[i].pc = "returned",
            !.calls[i].attempts = @ + 1,
            !.calls[i].result = Raised(adapter.provider, ClientError(i))]
    /\ UNCHANGED <<call, workflow, conversations, active_streams, lock, streams, turns, clients>>

\* ------------------------------------------------------------------------
\* HTTP routes (app/routes/chat.py)
\* ------------------------------------------------------------------------

\* DELETE /history/{conversation_id}: the status of the response
ClearStatus(success) == IF success THEN 200 ELSE 404

\* GET /history/{conversation_id}: message_count of the response
HistoryMessageCount(cid) == Len(SafeRecentMessages(cid, HistoryLimit))

\* ------------------------------------------------------------------------
\* Next-state relations of the processes, over the inputs they are given
\* ------------------------------------------------------------------------

AnyId == RequestIds \cup {NoId}

StreamNext(t, ids, inputs, frags, errors) ==
    \/ \E rid \in ids, msg \in inputs : StreamStart(t, rid, msg)
    \/ StreamValidate(t)
    \/ EnterGuard(t)
    \/ GuardBody(t)
    \/ ExitAcquire(t)
    \/ ExitGuard(t)
    \/ \E f \in frags : ProviderFragment(t, f)
    \/ ProviderEnd(t)
    \/ \E e \in errors : ProviderRaise(t, e)
    \/ StreamCancel(t)
    \/ SaveAcquire(t)
    \/ SaveResponse(t)
    \/ StreamEnd(t)

TurnNext(n, ids, inputs, replies, errors) ==
    \/ \E rid \in ids, msg \in inputs : TurnStart(n, rid, msg)
    \/ TurnAcquire(n)
    \/ ProcessInput(n)
    \/ ManageContext(n)
    \/ \E r \in replies : GenerateResponse(n, r)
    \/ \E e \in errors : GenerateFailure(n, e)
    \/ FormatOutput(n)

ClearNext(k, ids) ==
    \/ \E cid \in ids : ClearAcquire(k, cid)
    \/ clear_conversation(k)

ReadNext(r, ids) ==
    \/ \E cid \in ids, op \in ReadOps : ReadAcquire(r, cid, op)
    \/ get_conversation(r)
    \/ CountMessages(r)
    \/ get_conversation_history(r)

\* ------------------------------------------------------------------------
\* Spec: two streaming turns and a caller of clear_conversation, in every
\* interleaving
\* ------------------------------------------------------------------------

\* a blank message and a valid one with trailing whitespace
ConcurrentInputs == {<<SP>>, <<"a", SP>>}

ConcurrentFragments == {<<>>, <<"a">>, <<SP>>}

ConcurrentErrors == {[class |-> "TimeoutError", mentions |-> {}]}

Next ==
    \/ \E t \in StreamTurns :
          StreamNext(t, AnyId, ConcurrentInputs, ConcurrentFragments, ConcurrentErrors)
    \/ \E t \in StreamTurns : StreamClose(t)
    \/ \E k \in Clients : ClearNext(k, RequestIds)

Spec == Init /\ [][Next]_vars

\* ------------------------------------------------------------------------
\* SpecStream: one streaming turn with every input, fragment and provider
\* failure, next to a caller of clear_conversation
\* ------------------------------------------------------------------------

NextStream ==
    \/ StreamNext("s1", AnyId, UserInputs, Fragments, ProviderErrors)
    \/ StreamClose("s1")
    \/ \E k \in Clients : ClearNext(k, RequestIds \cup {GenId("s1")})

SpecStream == Init /\ [][NextStream]_vars

\* ------------------------------------------------------------------------
\* SpecTurn: one non-streaming turn with every input and provider outcome,
\* next to async_setup and a caller of clear_conversation
\* ------------------------------------------------------------------------

NextTurn ==
    \/ AsyncSetup
    \/ TurnNext("n1", AnyId, UserInputs, Replies, ErrorTexts)
    \/ \E k \in Clients : ClearNext(k, RequestIds \cup {GenId("n1")})

SpecTurn == Init /\ [][NextTurn]_vars

\* ------------------------------------------------------------------------
\* SpecSeq: on a set-up engine, one non-streaming turn run to completion and
\* then one streaming turn run to completion on the same conversation id,
\* with requests that passed ChatRequest's validation and a provider that
\* answers
\* ------------------------------------------------------------------------

\* messages of ChatRequest objects: trimmed, 1 to 1000 characters
ChatRequestInputs == {<<"a">>, <<"a", "a">>}

NextSeq ==
    \/ AsyncSetup
    \/ workflow /\ \E msg \in ChatRequestInputs : TurnStart("n1", "c1", msg)
    \/ TurnAcquire("n1")
    \/ ProcessInput("n1")
    \/ ManageContext("n1")
    \/ \E r \in Replies : GenerateResponse("n1", r)
    \/ FormatOutput("n1")
    \/ turns["n1"].pc = "done" /\ \E msg \in ChatRequestInputs : StreamStart("s1", "c1", msg)
    \/ StreamValidate("s1")
    \/ EnterGuard("s1")
    \/ GuardBody("s1")
    \/ ExitAcquire("s1")
    \/ ExitGuard("s1")
    \/ \E f \in Fragments : ProviderFragment("s1", f)
    \/ ProviderEnd("s1")
    \/ SaveAcquire("s1")
    \/ SaveResponse("s1")
    \/ StreamEnd("s1")

SpecSeq == Init /\ [][NextSeq]_vars

\* ------------------------------------------------------------------------
\* SpecPar: on a set-up engine, the non-streaming turns run concurrently on
\* one conversation id with a provider that answers or raises a short error,
\* next to concurrent callers of the read accessors
\* ------------------------------------------------------------------------

\* replies that are valid message content
ValidReplies == {<<"a">>, <<"a", SP>>}

ShortErrorTexts == {<<"a">>}

NextPar ==
    \/ AsyncSetup
    \/ \E n \in NonStreamTurns :
          workflow /\ \E msg \in ChatRequestInputs : TurnStart(n, "c1", msg)
    \/ \E n \in NonStreamTurns : TurnAcquire(n)
    \/ \E n \in NonStreamTurns : ProcessInput(n)
    \/ \E n \in NonStreamTurns : ManageContext(n)
    \/ \E n \in NonStreamTurns : \E r \in ValidReplies : GenerateResponse(n, r)
    \/ \E n \in NonStreamTurns : \E e \in ShortErrorTexts : GenerateFailure(n, e)
    \/ \E n \in NonStreamTurns : FormatOutput(n)
    \/ \E r \in Readers : ReadNext(r, RequestIds)

SpecPar == Init /\ [][NextPar]_vars

\* ------------------------------------------------------------------------
\* SpecInput: a streaming turn with every kind of message next to a
\* streaming turn with a valid message on the same conversation id
\* ------------------------------------------------------------------------

NextInput ==
    \/ StreamNext("s1", RequestIds, UserInputs, ConcurrentFragments, ConcurrentErrors)
    \/ StreamNext("s2", RequestIds, ChatRequestInputs, ConcurrentFragments, ConcurrentErrors)

SpecInput == Init /\ [][NextInput]_vars

\* ------------------------------------------------------------------------
\* SpecRecent: get_recent_messages applied to conversations of up to
\* MaxMessages messages.  Message.timestamp is datetime.utcnow() read when the
\* message is created: the readings of successive appends never decrease, and
\* two appends made within one tick of the clock read the same value.
\* ------------------------------------------------------------------------

\* the clock readings of n successive appends
ClockReadings(n) ==
    {ts \in [1..n -> 1..MaxMessages] : \A i \in 1..(n - 1) : ts[i] <= ts[i + 1]}

\* the i-th message appended: its content is i characters long
AppendedMessage(i, mtype, ts) ==
    NewMessage([j \in 1..i |-> "a"], mtype, "c1", ts, "n1")

\* conversations made of n appends
AppendedConversations(n) ==
    {[id |-> "c1",
      messages |-> [i \in 1..n |-> AppendedMessage(i, types[i], ts[i])],
      created_at |-> 0,
      updated_at |-> IF n = 0 THEN 0 ELSE ts[n]] :
        types \in [1..n -> {"user", "ai"}], ts \in ClockReadings(n)}

InitRecent ==
    /\ workflow = TRUE
    /\ \E n \in 0..MaxMessages : \E conv \in AppendedConversations(n) :
          conversations = ("c1" :> conv)
    /\ active_streams = {}
    /\ lock = NoOwner
    /\ streams = [t \in StreamTurns |-> IdleStream]
    /\ turns = [n \in NonStreamTurns |-> IdleTurn]
    /\ clients = [k \in Clients \cup Readers |->
                     IF k \in Clients THEN IdleClient ELSE IdleReader]
    /\ adapter = NewAdapter("OpenAI", TRUE, DefaultMaxRetries, 0)
    /\ call = NoCall

NextRecent ==
    \E limit \in 1..(MaxMessages + 1) : RecentCall("r1", "c1", limit)

SpecRecent == InitRecent /\ [][NextRecent]_vars

\* ------------------------------------------------------------------------
\* SpecRetry: generate_response invoked up to MaxInvocations times on an
\* adapter built with some max_retries, in front of a client whose first
\* calls fail
\* ------------------------------------------------------------------------

MaxRetriesValues == 0..DefaultMaxRetries

FailCounts == 0..3

InitRetry ==
    /\ workflow = FALSE
    /\ conversations = <<>>
    /\ active_streams = {}
    /\ lock = NoOwner
    /\ streams = [t \in StreamTurns |-> IdleStream]
    /\ turns = [n \in NonStreamTurns |-> IdleTurn]
    /\ clients = [k \in Clients \cup Readers |->
                     IF k \in Clients THEN IdleClient ELSE IdleReader]
    /\ \E m \in MaxRetriesValues, f \in FailCounts :
           adapter = NewAdapter("OpenAI", TRUE, m, f)
    /\ call = NoCall

NextRetry ==
    \/ AdapterGenerateStart("i1")
    \/ AdapterInvokeSucceeds("i1")
    \/ \E reported \in BOOLEAN : AdapterInvokeFails("i1", reported)

SpecRetry == InitRetry /\ [][NextRetry]_vars

\* ------------------------------------------------------------------------
\* SpecAdapter: two tasks invoke generate_response and
\* generate_response_stream on one adapter of any class, each up to
\* MaxInvocations times; the tasks interleave at the awaits on the client
\* ------------------------------------------------------------------------

InitAdapter ==
    /\ workflow = FALSE
    /\ conversations = <<>>
    /\ active_streams = {}
    /\ lock = NoOwner
    /\ streams = [t \in StreamTurns |-> IdleStream]
    /\ turns = [n \in NonStreamTurns |-> IdleTurn]
    /\ clients = [k \in Clients \cup Readers |->
                     IF k \in Clients THEN IdleClient ELSE IdleReader]
    /\ \E p \in Providers, k \in BOOLEAN, f \in FailCounts :
           adapter = NewAdapter(p, k, DefaultMaxRetries, f)
    /\ call = NoCall

NextAdapter ==
    \E i \in Invokers :
        \/ AdapterGenerateStart(i)
        \/ AdapterInvokeSucceeds(i)
        \/ \E reported \in BOOLEAN : AdapterInvokeFails(i, reported)
        \/ AdapterStreamStart(i)
        \/ AdapterStreamEnds(i)
        \/ \E reported \in BOOLEAN : AdapterStreamFails(i, reported)

SpecAdapter == InitAdapter /\ [][NextAdapter]_vars

\* ------------------------------------------------------------------------
\* Functions that touch no engine state, called on inputs drawn from small
\* sets: the engine, the adapter and the callers stay as constructed
\* ------------------------------------------------------------------------

EngineAsConstructed ==
    /\ workflow = FALSE
    /\ conversations = <<>>
    /\ active_streams = {}
    /\ lock = NoOwner
    /\ streams = [t \in StreamTurns |-> IdleStream]
    /\ turns = [n \in NonStreamTurns |-> IdleTurn]
    /\ clients = [k \in Clients \cup Readers |->
                     IF k \in Clients THEN IdleClient ELSE IdleReader]
    /\ adapter = NewAdapter("OpenAI", TRUE, DefaultMaxRetries, 0)

\* ------------------------------------------------------------------------
\* SpecFactory: create_default_model (app/chat/ai_providers.py) under every
\* configuration of the two keys and every outcome of the version probe
\* ------------------------------------------------------------------------

\* os.getenv of a variable that is not set
Unset == "<unset>"

\* settings.MOONSHOT_API_KEY, settings.OPENAI_API_KEY
KeyValues == {Unset, "", "k"}

\* "if settings.X_API_KEY:"
Truthy(key) == key # Unset /\ key # ""

\* client.get(f"{settings.OLLAMA_BASE_URL}/api/version", timeout=2.0):
\* an answer with a status code, or an exception (no connection, no answer
\* within the timeout, httpx not installed)
ProbeOutcomes ==
    {[raises |-> "none", status_code |-> c] : c \in {200, 204, 301, 404, 500}}
    \cup {[raises |-> e, status_code |-> 0] :
              e \in {"ConnectError", "TimeoutException", "ImportError"}}

\* the provider is chosen by the keys first and by the keys in the other order
create_default_model_OpenAIFirst(moonshot_key, openai_key, probe) ==
    IF Truthy(openai_key) THEN "OpenAIModel"
    ELSE IF Truthy(moonshot_key) THEN "MoonshotModel"
    ELSE IF probe.raises = "none" /\ probe.status_code = 200 THEN "OllamaModel"
    ELSE "MockAIModel"

create_default_model(moonshot_key, openai_key, probe) ==
    IF Truthy(moonshot_key) THEN "MoonshotModel"
    ELSE IF Truthy(openai_key) THEN "OpenAIModel"
    ELSE IF probe.raises = "none" /\ probe.status_code = 200 THEN "OllamaModel"
    ELSE "MockAIModel"

InitFactory ==
    /\ EngineAsConstructed
    /\ \E m \in KeyValues, o \in KeyValues, p \in ProbeOutcomes :
           call = [fn |-> "create_default_model", pc |-> "called",
                   MOONSHOT_API_KEY |-> m, OPENAI_API_KEY |-> o, probe |-> p,
                   result |-> "none"]

CreateDefaultModel ==
    /\ call.fn = "create_default_model"
    /\ call.pc = "called"
    /\ call' = [call EXCEPT
            !.pc = "returned",
            !.result = create_default_model(call.MOONSHOT_API_KEY,
                                            call.OPENAI_API_KEY, call.probe)]
    /\ UNCHANGED <<workflow, conversations, active_streams, lock, streams, turns, clients, adapter>>

NextFactory == CreateDefaultModel

SpecFactory == InitFactory /\ [][NextFactory]_vars

\* ------------------------------------------------------------------------
\* SpecHistory: GET /history/{conversation_id}?limit=L (app/routes/chat.py)
\* on a store that holds one conversation of up to MaxMessages messages
\* ------------------------------------------------------------------------

\* ids for which "not conversation_id.strip()" holds
BlankIds == {" "}

HistoryIds == {"c1", "c2"} \cup BlankIds

HistoryLimits == {-1, 0, 1, 2, MaxMessages, MaxMessages + 1, 100, 101}

\* the route body: 400 for a blank id, 400 for a limit outside 1..100,
\* otherwise the result dictionary built from
\* chat_workflow.get_conversation_history(conversation_id, limit)
HistoryResponse(cid, limit) ==
    IF cid \in BlankIds
    THEN [status_code |-> 400, store_read |-> FALSE, messages |-> <<>>,
          message_count |-> 0, limit |-> 0]
    ELSE IF limit < 1 \/ limit > 100
    THEN [status_code |-> 400, store_read |-> FALSE, messages |-> <<>>,
          message_count |-> 0, limit |-> 0]
    ELSE LET messages == SafeRecentMessages(cid, limit) IN
         [status_code |-> 200, store_read |-> TRUE, messages |-> messages,
          message_count |-> Len(messages), limit |-> limit]

\* one request to the route, from its arrival to its response; the route
\* does not suspend, and _safe_get_recent_messages takes and releases the lock
HistoryRoute(cid, limit) ==
    /\ call.pc = "idle"
    /\ lock = NoOwner
    /\ call' = [fn |-> "get_conversation_history", pc |-> "returned",
                conversation_id |-> cid, limit |-> limit,
                response |-> HistoryResponse(cid, limit)]
    /\ UNCHANGED <<workflow, conversations, active_streams, lock, streams, turns, clients, adapter>>

NextHistory ==
    \E cid \in HistoryIds, limit \in HistoryLimits : HistoryRoute(cid, limit)

SpecHistory == InitRecent /\ [][NextHistory]_vars

\* ------------------------------------------------------------------------
\* SpecSse: POST /stream (app/routes/chat.py).  generate_sse pulls the
\* StreamChunks of process_message_stream one by one and writes each as an
\* SSE event; the engine's generator runs only while generate_sse pulls.
\* ------------------------------------------------------------------------

\* chunk.model_dump(): the fields as python values; StreamChunk.timestamp is
\* a datetime (default_factory=datetime.utcnow) and stays one
model_dump(chunk) == [fields |-> chunk, timestamp |-> "datetime"]

\* json.dumps(value, ensure_ascii=False): the standard encoder raises
\* TypeError for a value that holds a datetime
json_dumps(value) ==
    IF value.timestamp = "datetime"
    THEN [raises |-> "TypeError", text |-> value.fields]
    ELSE [raises |-> "none", text |-> value.fields]

\* the StreamChunk built by the except clause of generate_sse
SyntheticError(e) == ErrorEvent("", "", e)

IdleRoute == [pc |-> "pulling", taken |-> 0, written |-> <<>>, raised |-> "none"]

\* one pass of the body of "async for chunk in process_message_stream" for
\* the chunk the engine has yielded, the except clause included
generate_sse(route, chunk) ==
    LET line == json_dumps(model_dump(chunk)) IN
    IF line.raises = "none"
    THEN [route EXCEPT !.taken = @ + 1, !.written = Append(@, line.text)]
    ELSE LET error_line == json_dumps(model_dump(SyntheticError(line.raises))) IN
         IF error_line.raises = "none"
         THEN [route EXCEPT !.pc = "ended", !.taken = @ + 1,
                            !.written = Append(@, error_line.text)]
         ELSE [route EXCEPT !.pc = "raised", !.taken = @ + 1,
                            !.raised = error_line.raises]

InitSse ==
    /\ EngineAsConstructed
    /\ call = [fn |-> "chat_stream", pc |-> "called",
               routes |-> [t \in StreamTurns |-> IdleRoute]]

\* the engine's generator is resumed by a pull of generate_sse
Pulled(t) ==
    /\ call.routes[t].pc = "pulling"
    /\ call.routes[t].taken = Len(streams[t].events)

\* the response starts to iterate generate_sse, whose first pull runs the
\* engine's generator to its first yield
SseStart(t, rid, msg) == Pulled(t) /\ StreamStart(t, rid, msg)

\* generate_sse receives the chunk the engine is suspended at
SseWrite(t) ==
    /\ call.routes[t].pc = "pulling"
    /\ call.routes[t].taken < Len(streams[t].events)
    /\ call' = [call EXCEPT !.routes[t] =
            generate_sse(@, streams[t].events[@.taken + 1])]
    /\ UNCHANGED <<workflow, conversations, active_streams, lock, streams, turns, clients, adapter>>

\* generate_sse has ended and the engine's generator is finalized
SseFinalize(t) ==
    /\ call.routes[t].pc \in {"ended", "raised"}
    /\ StreamClose(t)

NextSse ==
    \E t \in StreamTurns :
        \/ \E rid \in AnyId, msg \in ChatRequestInputs : SseStart(t, rid, msg)
        \/ SseWrite(t)
        \/ SseFinalize(t)

SpecSse == InitSse /\ [][NextSse]_vars

\* ------------------------------------------------------------------------
\* SpecDict: to_dict followed by from_dict on Message and Conversation
\* objects (app/models/message.py)
\* ------------------------------------------------------------------------

\* MessageType: member name and value
MessageTypes == {"USER", "AI", "SYSTEM"}

TypeValue(member) ==
    CASE member = "USER" -> "user"
      [] member = "AI" -> "ai"
      [] OTHER -> "system"

\* MessageType(value), as pydantic coerces the string of the dictionary
TypeOfValue(value) == CHOOSE member \in MessageTypes : TypeValue(member) = value

\* datetime values: utcnow() is naive; a caller may pass an aware one
Datetimes ==
    [second : {"12:00:00", "12:00:01"}, microsecond : {"000000", "123456"},
     tz : {"naive", "utc"}]

\* datetime.isoformat(): the fraction is left out when microsecond is 0 and
\* the offset is written for an aware value only
isoformat(dt) ==
    <<dt.second>>
    \o (IF dt.microsecond # "000000" THEN <<".", dt.microsecond>> ELSE <<>>)
    \o (IF dt.tz = "utc" THEN <<"+00:00">> ELSE <<>>)

\* str.replace("Z", "+00:00")
ReplaceZ(text) == [i \in 1..Len(text) |-> IF text[i] = "Z" THEN "+00:00" ELSE text[i]]

\* fromisoformat that drops the offset
fromisoformat_Naive(text) ==
    [second |-> text[1],
     microsecond |-> IF Len(text) >= 3 /\ text[2] = "." THEN text[3] ELSE "000000",
     tz |-> "naive"]

\* datetime.fromisoformat(text)
fromisoformat(text) ==
    [second |-> text[1],
     microsecond |-> IF Len(text) >= 3 /\ text[2] = "." THEN text[3] ELSE "000000",
     tz |-> IF text[Len(text)] = "+00:00" THEN "utc" ELSE "naive"]

\* metadata maps: None, the default empty map, a map with one entry
Metadatas == {"None", "{}", "{k: v}"}

\* Message objects, as Message(...) builds them: content valid and trimmed
MessageObjects ==
    [id : {"m1"}, content : {<<"a">>, <<"a", SP, "a">>}, type : MessageTypes,
     timestamp : Datetimes, conversation_id : {"c1"}, metadata : Metadatas]

\* Message.to_dict
Message_to_dict(m) ==
    [id |-> m.id, content |-> m.content, type |-> TypeValue(m.type),
     timestamp |-> isoformat(m.timestamp),
     conversation_id |-> m.conversation_id, metadata |-> m.metadata]

\* Message.from_dict: the timestamp string is parsed, then cls(**data)
\* validates the content, trims it and coerces the type
Message_from_dict(data) ==
    IF MessageValid(data.content)
    THEN [id |-> data.id, content |-> Strip(data.content),
          type |-> TypeOfValue(data.type),
          timestamp |-> fromisoformat(ReplaceZ(data.timestamp)),
          conversation_id |-> data.conversation_id, metadata |-> data.metadata]
    ELSE [raised |-> "ValidationError"]

\* the messages a Conversation object of this specification holds
ListedMessages ==
    {m \in MessageObjects :
        /\ m.content = <<"a">>
        /\ m.metadata = "{}"
        /\ m.timestamp.second = "12:00:00"
        /\ m.type # "SYSTEM"}

ConversationObjects ==
    [id : {"c1"},
     messages : {<<>>} \cup {<<m>> : m \in ListedMessages}
                \cup {<<m1, m2>> : m1 \in ListedMessages, m2 \in ListedMessages},
     created_at : {dt \in Datetimes : dt.second = "12:00:00" /\ dt.tz = "naive"},
     updated_at : {dt \in Datetimes : dt.microsecond = "123456"},
     metadata : {"{}"}]

\* Conversation.to_dict
Conversation_to_dict(c) ==
    [id |-> c.id,
     messages |-> [i \in 1..Len(c.messages) |-> Message_to_dict(c.messages[i])],
     created_at |-> isoformat(c.created_at),
     updated_at |-> isoformat(c.updated_at),
     metadata |-> c.metadata]

\* Conversation.from_dict
Conversation_from_dict(data) ==
    [id |-> data.id,
     messages |-> [i \in 1..Len(data.messages) |-> Message_from_dict(data.messages[i])],
     created_at |-> fromisoformat(ReplaceZ(data.created_at)),
     updated_at |-> fromisoformat(ReplaceZ(data.updated_at)),
     metadata |-> data.metadata]

InitDict ==
    /\ EngineAsConstructed
    /\ \/ \E m \in MessageObjects :
             call = [fn |-> "Message", pc |-> "built", original |-> m, x |-> m,
                     data |-> <<>>, y |-> <<>>]
       \/ \E c \in ConversationObjects :
             call = [fn |-> "Conversation", pc |-> "built", original |-> c, x |-> c,
                     data |-> <<>>, y |-> <<>>]

\* data = x.to_dict(): x is read, not assigned
ToDict ==
    /\ call.fn \in {"Message", "Conversation"}
    /\ call.pc = "built"
    /\ call' = [call EXCEPT !.pc = "dumped",
                            !.data = IF call.fn = "Message"
                                     THEN Message_to_dict(call.x)
                                     ELSE Conversation_to_dict(call.x)]
    /\ UNCHANGED <<workflow, conversations, active_streams, lock, streams, turns, clients, adapter>>

\* y = cls.from_dict(data)
FromDict ==
    /\ call.fn \in {"Message", "Conversation"}
    /\ call.pc = "dumped"
    /\ call' = [call EXCEPT !.pc = "loaded",
                            !.y = IF call.fn = "Message"
                                  THEN Message_from_dict(call.data)
                                  ELSE Conversation_from_dict(call.data)]
    /\ UNCHANGED <<workflow, conversations, active_streams, lock, streams, turns, clients, adapter>>

NextDict == ToDict \/ FromDict

SpecDict == InitDict /\ [][NextDict]_vars

\* ------------------------------------------------------------------------
\* SpecMock: MockAIModel.generate_response (app/chat/ai_models.py) called
\* twice on one history
\* ------------------------------------------------------------------------

\* MockAIModel.__init__: the five templates
MockAIModel ==
    [model_name |-> "mock-model",
     mock_responses |-> <<"template0", "template1", "template2", "template3",
                          "template4">>]

GREETING_PREFIX == "greeting_prefix"

QUESTION_PREFIX == "question_prefix"

\* str.lower() on the letters of the contents below
Lower(s) == [i \in 1..Len(s) |-> IF s[i] = "H" THEN "h" ELSE s[i]]

\* "pattern in s"
Contains(s, pattern) ==
    \E i \in 1..(Len(s) - Len(pattern) + 1) :
        SubSeq(s, i, i + Len(pattern) - 1) = pattern

\* contents of the messages of a history
MockContents ==
    {<<"a">>, <<"H", "i">>, <<"h", "a", "i">>, <<"a", "?">>,
     <<"h", "i", "?", "a", "a">>, <<"a", "a", "a", "a", "a", "a">>}

MockHistories ==
    {<<>>} \cup {<<c>> : c \in MockContents}
           \cup {<<c1, c2>> : c1 \in MockContents, c2 \in MockContents}

\* the template is chosen by the number of messages of the history
MockGenerate_ByHistoryLength(self, messages) ==
    IF messages = <<>> THEN <<self.mock_responses[1]>>
    ELSE LET content == messages[Len(messages)]
             index == Len(messages) % Len(self.mock_responses)
             greeted == IF Contains(Lower(content), <<"h", "i">>)
                        THEN <<GREETING_PREFIX>> ELSE <<>>
             asked == IF Contains(content, <<"?">>)
                      THEN <<QUESTION_PREFIX>> ELSE <<>> IN
         asked \o greeted \o <<self.mock_responses[index + 1]>>

\* the text returned by generate_response: the template of index
\* len(content) % 5, behind the greeting prefix when the content greets,
\* behind the question prefix when it holds a question mark
MockGenerate(self, messages) ==
    IF messages = <<>> THEN <<self.mock_responses[1]>>
    ELSE LET content == messages[Len(messages)]
             index == StrLen(content) % Len(self.mock_responses)
             greeted == IF Contains(Lower(content), <<"h", "i">>)
                        THEN <<GREETING_PREFIX>> ELSE <<>>
             asked == IF Contains(content, <<"?">>)
                      THEN <<QUESTION_PREFIX>> ELSE <<>> IN
         asked \o greeted \o <<self.mock_responses[index + 1]>>

InitMock ==
    /\ EngineAsConstructed
    /\ \E h \in MockHistories :
           call = [fn |-> "MockAIModel.generate_response", pc |-> "called",
                   self |-> MockAIModel, original |-> h, messages |-> h,
                   returned |-> <<>>]

\* one call of generate_response: neither self nor messages is assigned
MockCall ==
    /\ call.fn = "MockAIModel.generate_response"
    /\ Len(call.returned) < 2
    /\ call' = [call EXCEPT
            !.pc = "returned",
            !.returned = Append(@, MockGenerate(call.self, call.messages))]
    /\ UNCHANGED <<workflow, conversations, active_streams, lock, streams, turns, clients, adapter>>

NextMock == MockCall

SpecMock == InitMock /\ [][NextMock]_vars

\* ------------------------------------------------------------------------
\* SpecPost: POST / (app/routes/chat.py).  The framework builds the
\* ChatRequest from the body before it calls the route; the route body then
\* runs process_message.
\* ------------------------------------------------------------------------

MaxMessageLength == 1000

\* JSON bodies: without a "message" key, or with a string under it
PostBodies ==
    {[has_message |-> FALSE, message |-> <<>>]}
    \cup {[has_message |-> TRUE, message |-> m] :
              m \in {<<>>, <<SP>>, <<"a">>, <<"a", SP>>, <<KILO>>,
                     <<KILO, "a">>, <<KILO, SP>>}}

\* ChatRequest accepts every string
ChatRequestValid_AnyString(body) == body.has_message

\* ChatRequest(**body): "message" is required, Field(min_length=1,
\* max_length=1000) applies to the string as sent, validate_message refuses
\* blank strings
ChatRequestValid(body) ==
    /\ body.has_message
    /\ StrLen(body.message) >= 1
    /\ StrLen(body.message) <= MaxMessageLength
    /\ ~IsBlank(body.message)

NoRequest ==
    [pc |-> "none", body |-> [has_message |-> FALSE, message |-> <<>>],
     conversation_id |-> NoId, message |-> <<>>, status_code |-> 0]

InitPost ==
    /\ EngineAsConstructed
    /\ call = [fn |-> "chat", pc |-> "called", request |-> NoRequest]

\* the request arrives: a body that fails validation is answered with 422
\* and the route is not called; otherwise the route receives the ChatRequest,
\* whose message is the stripped string
ChatValidate(rid, body) ==
    /\ call.request.pc = "none"
    /\ call' = [call EXCEPT !.request =
            IF ChatRequestValid(body)
            THEN [pc |-> "accepted", body |-> body, conversation_id |-> rid,
                  message |-> Strip(body.message), status_code |-> 0]
            ELSE [pc |-> "rejected", body |-> body, conversation_id |-> rid,
                  message |-> <<>>, status_code |-> 422]]
    /\ UNCHANGED <<workflow, conversations, active_streams, lock, streams, turns, clients, adapter>>

\* the route body up to "await chat_workflow.process_message(request)"; its
\* own test for a blank message cannot fail on a validated request
ChatRoute(n) ==
    /\ call.request.pc = "accepted"
    /\ ~IsBlank(call.request.message)
    /\ TurnStart(n, call.request.conversation_id, call.request.message)

NextPost ==
    \/ AsyncSetup
    \/ \E rid \in AnyId, body \in PostBodies : ChatValidate(rid, body)
    \/ ChatRoute("n1")
    \/ TurnAcquire("n1")
    \/ ProcessInput("n1")
    \/ ManageContext("n1")
    \/ \E r \in ValidReplies : GenerateResponse("n1", r)
    \/ \E e \in ShortErrorTexts : GenerateFailure("n1", e)
    \/ FormatOutput("n1")

SpecPost == InitPost /\ [][NextPost]_vars

\* ------------------------------------------------------------------------
\* SpecTrim: a streaming turn on a conversation that earlier turns have
\* filled to about MaxConversationMessages messages (no non-streaming turn
\* trims, so every length is reached)
\* ------------------------------------------------------------------------

\* distance of the seeded lengths from MaxConversationMessages
TrimMargin == 2

\* the i-th message earlier turns appended: USER and AI in turn, one tick
\* apart, of 1 to 4 characters
SeededMessage(i) ==
    NewMessage([j \in 1..((i % 4) + 1) |-> "a"],
               IF i % 2 = 1 THEN "user" ELSE "ai", "c1", i, "earlier")

\* the conversation after n such appends
SeededConversation(n) ==
    [id |-> "c1", messages |-> [i \in 1..n |-> SeededMessage(i)],
     created_at |-> 0, updated_at |-> n]

LongLengths ==
    (MaxConversationMessages - TrimMargin)..(MaxConversationMessages + TrimMargin)

\* the set-up engine with conv stored as conversation "c1" and no call in progress
SeededEngine(conv) ==
    /\ workflow = TRUE
    /\ conversations = ("c1" :> conv)
    /\ active_streams = {}
    /\ lock = NoOwner
    /\ streams = [t \in StreamTurns |-> IdleStream]
    /\ turns = [m \in NonStreamTurns |-> IdleTurn]
    /\ clients = [k \in Clients \cup Readers |->
                     IF k \in Clients THEN IdleClient ELSE IdleReader]
    /\ adapter = NewAdapter("OpenAI", TRUE, DefaultMaxRetries, 0)
    /\ call = NoCall

InitTrim == \E n \in LongLengths : SeededEngine(SeededConversation(n))

NextTrim ==
    \/ StreamNext("s1", RequestIds, ChatRequestInputs, ConcurrentFragments, ConcurrentErrors)
    \/ StreamClose("s1")

SpecTrim == InitTrim /\ [][NextTrim]_vars

\* ------------------------------------------------------------------------
\* SpecContext: turns of both pipelines run one after the other on a
\* conversation that earlier turns have completed on, with a provider that
\* answers
\* ------------------------------------------------------------------------

\* number of turns completed on the conversation before the ones that run
MaxPriorTurns == 6

\* a conversation whose first message was appended with type SYSTEM:
\* Conversation.add_message takes any MessageType, and get_conversation hands
\* the stored Conversation object to its caller
WithSystemMessage(conv) ==
    IF conv.messages = <<>> THEN conv
    ELSE [conv EXCEPT !.messages[1].type = "system"]

InitContext ==
    \E k \in 0..MaxPriorTurns, system \in BOOLEAN :
        SeededEngine(IF system THEN WithSystemMessage(SeededConversation(2 * k))
                     ELSE SeededConversation(2 * k))

\* no call of the other pipeline is in progress
NoTurnRunning ==
    /\ \A t \in StreamTurns : streams[t].pc \in {"idle", "done"}
    /\ \A n \in NonStreamTurns : turns[n].pc \in {"idle", "done"}

NextContext ==
    \/ NoTurnRunning /\ \E msg \in ChatRequestInputs : TurnStart("n1", "c1", msg)
    \/ TurnAcquire("n1")
    \/ ProcessInput("n1")
    \/ ManageContext("n1")
    \/ \E r \in ValidReplies : GenerateResponse("n1", r)
    \/ FormatOutput("n1")
    \/ NoTurnRunning /\ \E msg \in ChatRequestInputs : StreamStart("s1", "c1", msg)
    \/ StreamValidate("s1")
    \/ EnterGuard("s1")
    \/ GuardBody("s1")
    \/ ExitAcquire("s1")
    \/ ExitGuard("s1")
    \/ \E f \in ConcurrentFragments : ProviderFragment("s1", f)
    \/ ProviderEnd("s1")
    \/ SaveAcquire("s1")
    \/ SaveResponse("s1")
    \/ StreamEnd("s1")

SpecContext == InitContext /\ [][NextContext]_vars

\* ------------------------------------------------------------------------
\* SpecCloudStream: generate_response_stream of the adapters that need an
\* API key (OpenAIModel, MoonshotModel), with and without a key, on an empty
\* and a non-empty history, in front of a stream that delivers fragments and
\* ends or fails
\* ------------------------------------------------------------------------

\* the words the last except clause looks for in str(e).lower()
StreamKeywords ==
    {"unauthorized", "api_key", "rate_limit", "quota", "model", "not found",
     "timeout", "connection", "network"}

\* the exception classes the except clauses tell apart; "Exception" is any
\* other subclass of Exception
StreamFailureClasses ==
    {"asyncio.TimeoutError", "ConnectionError", "ValueError", "Exception"}

\* an exception raised inside the try block: its class and the keywords its
\* message contains
StreamFailures == [class : StreamFailureClasses, mentions : SUBSET StreamKeywords]

\* an exception generate_response_stream raises: its class and the message
\* prefix that tells what it reports
StreamError(class, reports) == [class |-> class, reports |-> reports]

\* StreamRaises whose last except clause tests for "rate_limit" and "quota"
\* before "unauthorized" and "api_key"
StreamRaises_RateLimitFirst(e) ==
    IF e.class = "asyncio.TimeoutError" THEN StreamError("TimeoutError", "response_timeout")
    ELSE IF e.class = "ConnectionError" THEN StreamError("ConnectionError", "cannot_connect")
    ELSE IF e.class = "ValueError" THEN StreamError("ValueError", "parameter_error")
    ELSE IF e.mentions \cap {"rate_limit", "quota"} # {}
        THEN StreamError("Exception", "rate_limit")
    ELSE IF e.mentions \cap {"unauthorized", "api_key"} # {}
        THEN StreamError("ValueError", "authentication_failed")
    ELSE IF {"model", "not found"} \subseteq e.mentions
        THEN StreamError("ValueError", "model_not_found")
    ELSE IF "timeout" \in e.mentions THEN StreamError("TimeoutError", "service_timeout")
    ELSE IF e.mentions \cap {"connection", "network"} # {}
        THEN StreamError("ConnectionError", "network_problem")
    ELSE StreamError("Exception", "service_error")

\* the except clauses of generate_response_stream, in their order: each one
\* raises
StreamRaises(e) ==
    IF e.class = "asyncio.TimeoutError" THEN StreamError("TimeoutError", "response_timeout")
    ELSE IF e.class = "ConnectionError" THEN StreamError("ConnectionError", "cannot_connect")
    ELSE IF e.class = "ValueError" THEN StreamError("ValueError", "parameter_error")
    ELSE IF e.mentions \cap {"unauthorized", "api_key"} # {}
        THEN StreamError("ValueError", "authentication_failed")
    ELSE IF e.mentions \cap {"rate_limit", "quota"} # {}
        THEN StreamError("Exception", "rate_limit")
    ELSE IF {"model", "not found"} \subseteq e.mentions
        THEN StreamError("ValueError", "model_not_found")
    ELSE IF "timeout" \in e.mentions THEN StreamError("TimeoutError", "service_timeout")
    ELSE IF e.mentions \cap {"connection", "network"} # {}
        THEN StreamError("ConnectionError", "network_problem")
    ELSE StreamError("Exception", "service_error")

\* histories handed to the adapter
CloudHistories == {<<>>, <<[role |-> "human", content |-> <<"a">>]>>}

NoStreamError == StreamError("none", "none")

NoStreamFailure == [class |-> "none", mentions |-> {}]

\* a call of generate_response_stream that has not begun to run
InitCloudStream ==
    /\ EngineAsConstructed
    /\ \E provider \in KeyedProviders, api_key \in BOOLEAN, messages \in CloudHistories :
          call = [fn |-> "generate_response_stream", pc |-> "called",
                  provider |-> provider, api_key |-> api_key, messages |-> messages,
                  contacted |-> FALSE, yielded |-> 0,
                  failure |-> NoStreamFailure, raised |-> NoStreamError]

\* the generator runs up to "async for chunk in self.llm.astream(messages)"
CloudStreamStart ==
    /\ call.fn = "generate_response_stream"
    /\ call.pc = "called"
    /\ call' = IF ~call.api_key
               THEN [call EXCEPT !.pc = "raised",
                                 !.raised = StreamError("ValueError", "key_not_configured")]
               ELSE IF call.messages = <<>>
               THEN \* raise ValueError inside the try block
                    [call EXCEPT !.pc = "raised",
                                 !.raised = StreamRaises([class |-> "ValueError",
                                                          mentions |-> {}])]
               ELSE [call EXCEPT !.pc = "streaming", !.contacted = TRUE]
    /\ adapter' = IF call.api_key THEN [adapter EXCEPT !.retry_handler = reset(@)]
                  ELSE adapter
    /\ UNCHANGED <<workflow, conversations, active_streams, lock, streams, turns, clients>>

\* "yield chunk.content"
CloudStreamFragment ==
    /\ call.fn = "generate_response_stream"
    /\ call.pc = "streaming"
    /\ call.yielded < MaxFragments
    /\ call' = [call EXCEPT !.yielded = @ + 1]
    /\ UNCHANGED <<workflow, conversations, active_streams, lock, streams, turns, clients, adapter>>

\* the stream is exhausted
CloudStreamEnds ==
    /\ call.fn = "generate_response_stream"
    /\ call.pc = "streaming"
    /\ call' = [call EXCEPT !.pc = "returned"]
    /\ UNCHANGED <<workflow, conversations, active_streams, lock, streams, turns, clients, adapter>>

\* the stream raises e
CloudStreamFails(e) ==
    /\ call.fn = "generate_response_stream"
    /\ call.pc = "streaming"
    /\ call' = [call EXCEPT !.pc = "raised", !.failure = e, !.raised = StreamRaises(e)]
    /\ UNCHANGED <<workflow, conversations, active_streams, lock, streams, turns, clients, adapter>>

NextCloudStream ==
    \/ CloudStreamStart
    \/ CloudStreamFragment
    \/ CloudStreamEnds
    \/ \E e \in StreamFailures : CloudStreamFails(e)

SpecCloudStream == InitCloudStream /\ [][NextCloudStream]_vars

\* ------------------------------------------------------------------------
\* SpecHandler: a RetryHandler that is told of errors and reset, in any order
\* ------------------------------------------------------------------------

\* errors reported to one handler between two resets, at most
MaxErrors == 5

\* str(error) of the errors reported
ReportedErrors == {"e1", "e2"}

\* Backoff that sleeps after every error
Backoff_EveryError(h) == 1 * h.current_retry

\* the seconds on_llm_error sleeps once it has counted the error:
\* time.sleep(1 * self.current_retry) while current_retry <= max_retries
Backoff(h) ==
    IF h.current_retry <= h.max_retries THEN 1 * h.current_retry ELSE 0

InitHandler ==
    /\ EngineAsConstructed
    /\ \E m \in MaxRetriesValues :
          call = [fn |-> "RetryHandler", handler |-> RetryHandler(m),
                  last |-> "__init__", error |-> "none", slept |-> 0]

\* handler.on_llm_error(error)
HandlerError(e) ==
    /\ call.fn = "RetryHandler"
    /\ call.handler.current_retry < MaxErrors
    /\ call' = [call EXCEPT !.handler = on_llm_error(@, e),
                            !.last = "on_llm_error",
                            !.error = e,
                            !.slept = Backoff(on_llm_error(call.handler, e))]
    /\ UNCHANGED <<workflow, conversations, active_streams, lock, streams, turns, clients, adapter>>

\* handler.reset()
HandlerReset ==
    /\ call.fn = "RetryHandler"
    /\ call' = [call EXCEPT !.handler = reset(@), !.last = "reset",
                            !.error = "none", !.slept = 0]
    /\ UNCHANGED <<workflow, conversations, active_streams, lock, streams, turns, clients, adapter>>

NextHandler ==
    \/ \E e \in ReportedErrors : HandlerError(e)
    \/ HandlerReset

SpecHandler == InitHandler /\ [][NextHandler]_vars

\* ------------------------------------------------------------------------
\* SpecMixed: on a set-up engine, two streaming turns, a non-streaming turn
\* and a caller of clear_conversation, in every interleaving, on one
\* conversation id or on ids of their own
\* ------------------------------------------------------------------------

MixedInputs == {<<"a">>}

MixedFragments == {<<"a">>}

InitMixed ==
    /\ workflow = TRUE
    /\ conversations = <<>>
    /\ active_streams = {}
    /\ lock = NoOwner
    /\ streams = [t \in StreamTurns |-> IdleStream]
    /\ turns = [n \in NonStreamTurns |-> IdleTurn]
    /\ clients = [k \in Clients \cup Readers |->
                     IF k \in Clients THEN IdleClient ELSE IdleReader]
    /\ adapter = NewAdapter("OpenAI", TRUE, DefaultMaxRetries, 0)
    /\ call = NoCall

\* a streaming turn whose provider answers with valid content (its reply is
\* saved without a warning) and whose consumer keeps pulling
StreamAnswered(t, ids) ==
    \/ \E rid \in ids, msg \in MixedInputs : StreamStart(t, rid, msg)
    \/ StreamValidate(t)
    \/ EnterGuard(t)
    \/ GuardBody(t)
    \/ ExitAcquire(t)
    \/ ExitGuard(t)
    \/ \E f \in MixedFragments : ProviderFragment(t, f)
    \/ ProviderEnd(t)
    \/ SaveAcquire(t)
    \/ SaveResponse(t)

NextMixed ==
    \/ StreamAnswered("s1", AnyId)
    \/ StreamAnswered("s2", RequestIds)
    \/ TurnNext("n1", RequestIds, MixedInputs, MixedInputs, ShortErrorTexts)
    \/ \E k \in Clients : ClearNext(k, RequestIds)

SpecMixed == InitMixed /\ [][NextMixed]_vars

\* ------------------------------------------------------------------------
\* SpecFrame: on a set-up engine, a streaming turn, a non-streaming turn, a
\* caller of clear_conversation and a reader, each on the shared
\* conversation id or on another one, in every interleaving
\* ------------------------------------------------------------------------

\* the ids the turns resolve their requests to
FrameIds == RequestIds \cup {GenId("s1"), GenId("n1")}

NextFrame ==
    \/ StreamAnswered("s1", AnyId)
    \/ TurnNext("n1", AnyId, MixedInputs, MixedInputs, ShortErrorTexts)
    \/ \E k \in Clients : ClearNext(k, FrameIds)
    \/ ReadNext("r1", FrameIds)

SpecFrame == InitMixed /\ [][NextFrame]_vars

\* ------------------------------------------------------------------------
\* SpecLive: two streaming turns whose consumers keep pulling and whose
\* provider streams terminate.  A started turn that can take a step (resume
\* after a yield, be told that the provider's stream is exhausted, be granted
\* the free lock) eventually takes it.
\* ------------------------------------------------------------------------

LiveFragments == {<<"a">>, <<SP>>}

NextLive ==
    \/ \E t \in StreamTurns :
          StreamNext(t, RequestIds, ConcurrentInputs, LiveFragments, ConcurrentErrors)

\* the steps of a started turn
Progress(t) ==
    \/ StreamValidate(t)
    \/ EnterGuard(t)
    \/ GuardBody(t)
    \/ ExitAcquire(t)
    \/ ExitGuard(t)
    \/ ProviderEnd(t)
    \/ SaveAcquire(t)
    \/ SaveResponse(t)
    \/ StreamEnd(t)

SpecLive ==
    /\ Init
    /\ [][NextLive]_vars
    /\ \A t \in StreamTurns : WF_vars(Progress(t))

\* ------------------------------------------------------------------------
\* Properties
\* ------------------------------------------------------------------------

Last(seq) == seq[Len(seq)]

\* the turn has emitted its terminal event
HasTerminal(t) == \E i \in 1..Len(streams[t].events) :
                      streams[t].events[i].type \in {"end", "error"}

\* the turn's generator has yielded 'start' and has neither emitted a terminal
\* event nor been closed
InFlight(t) == streams[t].pc \notin {"idle", "done", "closed"}

\* the turn is between __aenter__ and the end of the finally clause of
\* _conversation_context
InGuard(t) == streams[t].pc \in {"guard", "exit", "exit_locked"}

\* generate_response_stream has delivered to the turn and is not exhausted
CallingProvider(t) ==
    /\ streams[t].pc \in {"provider", "chunk_yielded"}
    /\ streams[t].ai_stream_started

\* the messages the store holds for a conversation id
Messages(cid) == IF cid \in DOMAIN conversations THEN conversations[cid].messages ELSE <<>>

\* the messages a turn has in the store
MessagesOf(t, cid) == SelectSeq(Messages(cid), LAMBDA m : m.turn = t)

\* C1: for every conversation id, at most one provider streaming call is in
\* progress at any time: a second streaming turn started while the first has
\* not emitted its terminal event never reaches generate_response_stream.
C1_OneProviderCallPerConversation ==
    \A t1, t2 \in StreamTurns :
        (/\ t1 # t2
         /\ streams[t1].conversation_id = streams[t2].conversation_id
         /\ CallingProvider(t1))
        => ~CallingProvider(t2)

\* the turn was refused by _conversation_context because its conversation id
\* was in the active-stream set
Rejected(t) == \E i \in 1..Len(streams[t].events) :
                   streams[t].events[i].error_details = "already being streamed"

\* C2: a streaming turn rejected because its conversation id is already marked
\* as streaming emits, after 'start', exactly one 'error' event that says
\* "already being streamed" with error_category "concurrent_streaming", nothing
\* further, and appends no message to the conversation.
C2_RejectedTurnReportsConflict ==
    \A t \in StreamTurns :
        Rejected(t) =>
            /\ Len(streams[t].events) = 2
            /\ streams[t].events[1].type = "start"
            /\ streams[t].events[2].type = "error"
            /\ streams[t].events[2].text = "already being streamed"
            /\ streams[t].events[2].error_category = "concurrent_streaming"
            /\ MessagesOf(t, streams[t].conversation_id) = <<>>

\* C3: once a streaming turn has ended (by 'end', by 'error', by cancellation
\* or by being closed) it does not keep its conversation id in the
\* active-stream set: every marked id belongs to a turn that is still inside
\* the guard and has not emitted a terminal event, so an id whose turns have
\* all ended is unmarked and a later turn on it is not refused.
C3_MarkReleasedWhenTurnEnds ==
    \A cid \in active_streams :
        \E t \in StreamTurns :
            /\ streams[t].conversation_id = cid
            /\ InGuard(t)
            /\ ~HasTerminal(t)

\* two turns on one conversation id have ended, one with 'end' and one by
\* cancellation, after both went through the guard, and the id is unmarked
C3_Witness ==
    \E t1, t2 \in StreamTurns :
        /\ t1 # t2
        /\ streams[t1].conversation_id = streams[t2].conversation_id
        /\ streams[t1].pc = "done" /\ Last(streams[t1].events).type = "end"
        /\ streams[t2].pc = "done"
        /\ Last(streams[t2].events).error_category = "client_disconnection"
        /\ streams[t1].user_message_added /\ streams[t2].user_message_added
        /\ ~is_conversation_streaming(streams[t1].conversation_id)

\* C4: clear_conversation called while a streaming turn on the id is between
\* its 'start' and its terminal event returns false and leaves the
\* conversation in the store; called after the turn has completed, on a stored
\* conversation, it returns true.
C4_ClearRefusedDuringStream ==
    \A k \in Clients :
        clients[k].result # "none" =>
            /\ clients[k].in_flight # {} => clients[k].result = "False"
            /\ (clients[k].in_flight = {} /\ clients[k].finished # {} /\ clients[k].existed)
                   => clients[k].result = "True"

\* C5: is_conversation_streaming(c) is true from the 'start' event of a
\* streaming turn on c until the turn has completed.
C5_StreamingWhileInFlight ==
    \A t \in StreamTurns :
        InFlight(t) => is_conversation_streaming(streams[t].conversation_id)

\* C6: with a provider whose stream terminates and a consumer that keeps
\* pulling, every started streaming turn eventually emits a terminal 'end' or
\* 'error' event, and a turn that has emitted it holds neither the
\* conversation lock nor the streaming mark.
C6_TurnTerminates ==
    \A t \in StreamTurns :
        /\ (streams[t].pc # "idle") ~> HasTerminal(t)
        /\ [](HasTerminal(t) => (lock # t /\ ~InGuard(t)))

\* a turn took the lock and the mark, streamed a chunk and ended with 'end'
\* while the other turn on the same id ended with a provider failure
C6_Witness ==
    \E t1, t2 \in StreamTurns :
        /\ t1 # t2
        /\ streams[t1].conversation_id = streams[t2].conversation_id
        /\ streams[t1].pc = "done" /\ Last(streams[t1].events).type = "end"
        /\ streams[t1].chunk_index > 0
        /\ streams[t2].pc = "done"
        /\ Last(streams[t2].events).error_category = "ai_model_timeout"
        /\ lock = NoOwner /\ active_streams = {}

\* the event sequence of a turn that ran to its end
WellFormed(ev) ==
    /\ Len(ev) >= 2
    /\ ev[1].type = "start"
    /\ Last(ev).type \in {"end", "error"}
    /\ \A i \in 2..(Len(ev) - 1) :
          \/ ev[i].type = "chunk"
          \/ ev[i].type = "warning" /\ i = Len(ev) - 1 /\ Last(ev).type = "end"

RECURSIVE ChunkText(_)
\* the concatenation, in order, of the content of the 'chunk' events
ChunkText(ev) ==
    IF ev = <<>> THEN <<>>
    ELSE (IF Head(ev).type = "chunk" THEN Head(ev).content ELSE <<>>) \o ChunkText(Tail(ev))

\* the non-streaming turn and then the streaming turn have run to completion
SeqCompleted ==
    /\ turns["n1"].pc = "done"
    /\ streams["s1"].pc = "done"

\* the store holds USER, AI, USER, AI and the last AI message is the trimmed
\* concatenation of the streaming turn's chunks
FourMessages ==
    LET msgs == Messages("c1") IN
    /\ Len(msgs) = 4
    /\ msgs[1].type = "user" /\ msgs[2].type = "ai"
    /\ msgs[3].type = "user" /\ msgs[4].type = "ai"
    /\ msgs[1].turn = "n1" /\ msgs[2].turn = "n1"
    /\ msgs[3].turn = "s1" /\ msgs[4].turn = "s1"
    /\ msgs[4].content = Strip(ChunkText(streams["s1"].events))

EmitsEnd(t) ==
    /\ Len(streams'[t].events) = Len(streams[t].events) + 1
    /\ Last(streams'[t].events).type = "end"

\* C9: a streaming turn emits 'end' only after its accumulated AI reply has
\* been appended: when 'end' is emitted the conversation holds an AI message
\* of that turn whose content is the concatenation of the turn's chunks.
C9_EndOnlyAfterSave ==
    [][\A t \in StreamTurns :
          EmitsEnd(t) =>
              \E i \in 1..Len(Messages(streams[t].conversation_id)') :
                  LET m == Messages(streams[t].conversation_id)'[i] IN
                  /\ m.turn = t
                  /\ m.type = "ai"
                  /\ m.content = Strip(ChunkText(streams'[t].events))]_vars

\* what makes a stage of the pipeline raise: the engine is not set up, the
\* input is blank, or a message fails validation when it is appended
StageRaises(n) ==
    \/ ~workflow
    \/ IsBlank(turns[n].user_input)
    \/ ~MessageValid(turns[n].user_input)
    \/ ~MessageValid(turns[n].ai_response)

TypesOf(msgs) == [i \in 1..Len(msgs) |-> msgs[i].type]

\* no caller of clear_conversation has removed a conversation
NothingCleared == \A k \in Clients : clients[k].result # "True"

\* C11: a non-streaming turn that process_message ran on a set-up engine with
\* a non-empty message has appended exactly two messages to its conversation
\* when it returns, the USER message and then one AI message, whatever the
\* provider returned or raised: no USER message is stored without its AI
\* message.
C11_TurnAppendsUserThenAi ==
    \A n \in NonStreamTurns :
        (/\ turns[n].pc = "done"
         /\ turns[n].final_response.error # "RuntimeError"
         /\ MessageValid(turns[n].user_input)
         /\ NothingCleared)
        => TypesOf(MessagesOf(n, turns[n].conversation_id)) = <<"user", "ai">>

\* the non-streaming turns that have returned
TurnsDone == {n \in NonStreamTurns : turns[n].pc = "done"}

\* the number of stored messages of a type
CountOfType(cid, mtype) ==
    Len(SelectSeq(Messages(cid), LAMBDA m : m.type = mtype))

BadInput(v) ==
    \/ \A i \in 1..Len(v) : v[i] = SP
    \/ StrLen(v) > 10000

\* the event sequence start, error(input_validation)
StartThenInputError(ev) ==
    /\ Len(ev) = 2
    /\ ev[1].type = "start"
    /\ ev[2].type = "error"
    /\ ev[2].error_category = "input_validation"

\* C13: a streaming turn whose message is empty, whitespace-only or longer
\* than 10,000 characters ends with exactly two events, 'start' and one
\* 'error' with error_category "input_validation"; none of its steps changes
\* the conversation store or the active-stream set, and it never reads the
\* provider.
C13_BadInputRejected ==
    [][\A t \in StreamTurns :
          (streams[t].pc # "idle" /\ BadInput(streams[t].user_input)) =>
              /\ streams'[t] # streams[t] =>
                    /\ conversations' = conversations
                    /\ active_streams' = active_streams
                    /\ streams'[t].pc = "done"
                    /\ StartThenInputError(streams'[t].events)
              /\ streams[t].received = 0
              /\ ~streams[t].user_message_added]_vars

\* a turn with a message of 10,001 characters was refused while the other
\* turn held the streaming mark on the same id and had stored its message
C13_Witness ==
    /\ streams["s1"].pc = "done"
    /\ streams["s1"].user_input = <<BIG, "a">>
    /\ StartThenInputError(streams["s1"].events)
    /\ streams["s2"].conversation_id = streams["s1"].conversation_id
    /\ is_conversation_streaming(streams["s2"].conversation_id)
    /\ Len(Messages(streams["s2"].conversation_id)) = 1

\* the category the failure of the provider is reported with
ExpectedCategory(e) ==
    CASE e.class = "TimeoutError" -> "ai_model_timeout"
      [] e.class = "ConnectionError" -> "network_error"
      [] e.class = "ValueError" ->
            (CASE e.mentions \cap {"api_key", "unauthorized", "authentication"} # {}
                      -> "authentication_error"
               [] OTHER ->
                      IF "model" \in e.mentions /\ "not found" \in e.mentions
                      THEN "model_error" ELSE "parameter_error")
      [] OTHER ->
            IF "rate_limit" \in e.mentions \/ "quota" \in e.mentions
            THEN "rate_limit_error" ELSE "ai_service_error"

\* the events of a type in a sequence
EventsOfType(ev, type) == SelectSeq(ev, LAMBDA x : x.type = type)

\* C14: when generate_response_stream raises during a streaming turn, the
\* turn emits exactly one 'error' event and no 'end' and stops, and the
\* error_category follows the failure: timeout -> ai_model_timeout,
\* connection failure -> network_error, ValueError -> authentication_error /
\* model_error / parameter_error by its text, any other exception ->
\* rate_limit_error if its text mentions rate_limit or quota, else
\* ai_service_error.
C14_ProviderFailureClassified ==
    [][\A t \in StreamTurns : \A e \in ProviderErrors :
          ProviderRaise(t, e) =>
              /\ streams'[t].pc = "done"
              /\ streams'[t].events =
                     Append(streams[t].events, Last(streams'[t].events))
              /\ Last(streams'[t].events).type = "error"
              /\ Last(streams'[t].events).error_category = ExpectedCategory(e)
              /\ Len(EventsOfType(streams'[t].events, "error")) = 1
              /\ EventsOfType(streams'[t].events, "end") = <<>>
              /\ conversations' = conversations]_vars

\* the provider raised a ValueError about a model that was not found after
\* one chunk had been delivered
C14_Witness ==
    \E t \in StreamTurns :
        /\ streams[t].pc = "done"
        /\ Len(streams[t].events) = 3
        /\ streams[t].events[2].type = "chunk"
        /\ streams[t].events[3].type = "error"
        /\ streams[t].events[3].error_category = "model_error"

\* C15: if the provider's stream ends without having yielded any non-empty
\* fragment, the streaming turn emits one 'error' event with error_category
\* "ai_model_response" as its terminal event, has emitted no 'chunk' and no
\* 'end', and appends no AI message.
C15_EmptyStreamIsError ==
    [][\A t \in StreamTurns :
          (ProviderEnd(t) /\ streams[t].full_response = <<>>) =>
              /\ streams'[t].pc = "done"
              /\ streams'[t].events =
                     Append(streams[t].events, Last(streams'[t].events))
              /\ Last(streams'[t].events).type = "error"
              /\ Last(streams'[t].events).error_category = "ai_model_response"
              /\ Len(EventsOfType(streams'[t].events, "error")) = 1
              /\ EventsOfType(streams'[t].events, "chunk") = <<>>
              /\ EventsOfType(streams'[t].events, "end") = <<>>
              /\ conversations' = conversations
              /\ TypesOf(MessagesOf(t, streams[t].conversation_id)') \in {<<>>, <<"user">>}]_vars

\* the provider delivered two empty fragments and stopped: the turn ended
\* start, error(ai_model_response) and only its USER message is stored
C15_Witness ==
    \E t \in StreamTurns :
        /\ streams[t].pc = "done"
        /\ streams[t].received = 2
        /\ Len(streams[t].events) = 2
        /\ streams[t].events[2].error_category = "ai_model_response"
        /\ TypesOf(MessagesOf(t, streams[t].conversation_id)) = <<"user">>

\* the turn ended with the single error event of a client disconnection
DisconnectionReported(t) ==
    /\ Len(EventsOfType(streams[t].events, "error")) = 1
    /\ Last(streams[t].events).type = "error"
    /\ Last(streams[t].events).error_category = "client_disconnection"

\* C16 as stated: whenever the consumer of a streaming turn has cancelled or
\* stopped pulling after 'start', the turn has produced a single 'error'
\* event with error_category "client_disconnection" and does not hold the
\* streaming mark.
C16_Original ==
    \A t \in StreamTurns :
        streams[t].pc = "closed" => (DisconnectionReported(t) /\ ~InGuard(t))

\* C16 (amended): a cancellation that reaches the turn while it waits for the
\* provider's stream (before the first fragment or between two fragments)
\* makes it emit a single 'error' event with error_category
\* "client_disconnection" as its terminal event, without 'end' and without
\* storing a reply; a consumer that stops pulling while the turn is suspended
\* at an event it has yielded closes the turn without any further event.  In
\* both cases the turn holds neither the streaming mark nor the lock.
C16_CancellationReported ==
    [][\A t \in StreamTurns :
          /\ StreamCancel(t) =>
                /\ streams'[t].pc = "done"
                /\ streams'[t].events =
                       Append(streams[t].events, Last(streams'[t].events))
                /\ DisconnectionReported(t)'
                /\ EventsOfType(streams'[t].events, "end") = <<>>
                /\ conversations' = conversations
                /\ ~InGuard(t)' /\ lock' # t
          /\ (streams[t].pc # "closed" /\ streams'[t].pc = "closed") =>
                /\ streams'[t].events = streams[t].events
                /\ ~HasTerminal(t)
                /\ ~InGuard(t)' /\ lock' # t]_vars

\* on one conversation id, a turn was cancelled between two fragments and
\* reported the disconnection, the other was closed after its first chunk,
\* and the id is not marked
C16_Witness ==
    \E t1, t2 \in StreamTurns :
        /\ streams[t1].conversation_id = streams[t2].conversation_id
        /\ streams[t1].pc = "done" /\ DisconnectionReported(t1)
        /\ streams[t1].chunk_index = 1
        /\ streams[t2].pc = "closed" /\ streams[t2].chunk_index = 1
        /\ active_streams = {}

\* the step is taken by the process that owns the conversation lock
MoverHoldsLock ==
    /\ \A t \in StreamTurns : streams'[t] # streams[t] => lock = t
    /\ \A n \in NonStreamTurns : turns'[n] # turns[n] => lock = n
    /\ \A k \in Clients \cup Readers : clients'[k] # clients[k] => lock = k

\* a streaming turn that owns the lock is inside one of its lock sections,
\* not suspended at a yield or waiting for the provider
LockOnlyInSections ==
    \A t \in StreamTurns :
        lock = t => streams[t].pc \in {"enter_locked", "exit_locked", "save_locked"}

\* C17: every step that writes the conversation map, a stored conversation's
\* message list or the active-stream set is taken by the owner of the
\* conversation lock, and the lock is never owned by a turn that is suspended
\* (at a yield, or waiting for the provider).
C17_StoreAccessUnderLock ==
    [][/\ (conversations' # conversations \/ active_streams' # active_streams)
              => MoverHoldsLock
       /\ LockOnlyInSections]_vars

\* C18: clear_conversation(c) returns true and removes c exactly when c is in
\* the store and not marked as streaming; right after a successful clear
\* get_conversation(c) is None, the history of c has message_count 0 and a
\* second clear would return false (HTTP 404); a clear that returns false
\* (HTTP 404), as for an id that was never seen, changes nothing.
C18_ClearRemovesStoredUnmarked ==
    [][\A k \in Clients :
          clear_conversation(k) =>
              LET cid == clients[k].conversation_id
                  removable == cid \in DOMAIN conversations /\ cid \notin active_streams
              IN
              /\ clients'[k].result = (IF removable THEN "True" ELSE "False")
              /\ active_streams' = active_streams
              /\ removable =>
                    /\ cid \notin DOMAIN conversations'
                    /\ \A c \in DOMAIN conversations \ {cid} :
                          c \in DOMAIN conversations' /\ conversations'[c] = conversations[c]
                    /\ HistoryMessageCount(cid)' = 0
                    /\ ClearResult(cid)' = FALSE
                    /\ ClearStatus(ClearResult(cid)') = 404
              /\ ~removable =>
                    /\ conversations' = conversations
                    /\ ClearStatus(FALSE) = 404]_vars

\* a clear of an id that a turn had stored and that was not marked, after the
\* turn had ended with 'end', returned true and removed it
C18_Witness ==
    \E k \in Clients, t \in StreamTurns :
        /\ clients[k].result = "True"
        /\ clients[k].existed
        /\ clients[k].conversation_id = streams[t].conversation_id
        /\ t \in clients[k].finished
        /\ Last(streams[t].events).type = "end"
        /\ clients[k].conversation_id \notin DOMAIN conversations
        /\ HistoryMessageCount(clients[k].conversation_id) = 0

\* the last k elements of a sequence, last one first
RECURSIVE LastFirst(_, _)
LastFirst(msgs, k) ==
    IF k = 0 \/ msgs = <<>> THEN <<>>
    ELSE <<msgs[Len(msgs)]>> \o LastFirst(SubSeq(msgs, 1, Len(msgs) - 1), k - 1)

\* C19: for a conversation whose messages were appended in the order
\* m1..mn, get_recent_messages(limit=k) returns exactly min(k, n) messages,
\* namely mn, m(n-1), ... in reverse append order, and leaves the
\* conversation as it was.
C19_RecentMessagesReverseAppendOrder ==
    \A r \in Readers :
        (clients[r].pc = "returned" /\ clients[r].op = "get_recent_messages") =>
            LET msgs == Messages(clients[r].conversation_id) IN
            /\ Len(clients[r].messages) = Min(clients[r].limit, Len(msgs))
            /\ clients[r].messages = LastFirst(msgs, clients[r].limit)
            /\ \A i \in 1..Len(msgs) : Len(msgs[i].content) = i

\* C20: when the underlying call fails on its first 2 attempts and succeeds
\* on the 3rd and max_retries is 3, one generate_response invocation returns
\* the successful reply after exactly 3 call attempts, and the retry handler
\* holds exactly 2 recorded errors (counter 2) until the reset of the next
\* invocation.
C20_RetryUntilSuccess ==
    (/\ adapter.fail_count = 2
     /\ adapter.retry_handler.max_retries = 3
     /\ adapter.calls["i1"].invocations = 1
     /\ adapter.calls["i1"].pc = "returned")
    => /\ adapter.calls["i1"].result.kind = "reply"
       /\ adapter.calls["i1"].attempts = 3
       /\ Len(adapter.retry_handler.errors) = 2
       /\ adapter.retry_handler.current_retry = 2

\* the errors listed by the result of invoker i's last invocation were all
\* raised by that invocation
OwnErrorsOnly(i) ==
    \A k \in 1..Len(adapter.calls[i].result.details) :
        LET e == adapter.calls[i].result.details[k] IN
            e.by = i /\ e.invocation = adapter.calls[i].invocations

\* C21: the errors reported by one generate_response invocation never
\* include an error raised by another invocation on the same adapter,
\* whatever the interleaving of the invocations.
C21_RetryAccountingNeverLeaks ==
    \A i \in Invokers :
        adapter.calls[i].result.kind = "apology_with_details" => OwnErrorsOnly(i)


\* the step in which invoker i's generate_response returns
GenerateReturns(i) ==
    adapter.calls[i].pc = "invoking" /\ adapter'.calls[i].pc = "returned"

\* C22: generate_response of every adapter class never raises: when the
\* client call fails it returns the adapter's apology, which lists the
\* retry handler's accumulated errors when there are any and is the generic
\* apology otherwise.
C22_GenerateResponseNeverRaises ==
    [][\A i \in Invokers :
          GenerateReturns(i) =>
              LET r == adapter'.calls[i].result
                  errors == adapter'.retry_handler.errors IN
                  /\ r.kind # "raised"
                  /\ adapter.call_count < adapter.fail_count =>
                         /\ r.provider = adapter.provider
                         /\ r.details = errors
                         /\ r.kind = IF errors # <<>> THEN "apology_with_details"
                                     ELSE "apology"]_vars

\* one adapter has answered one invocation with the generic apology and
\* another with the recorded errors
C22_Witness ==
    /\ adapter.calls["i1"].result.kind = "apology"
    /\ adapter.calls["i2"].result.kind = "apology_with_details"
    /\ adapter.calls["i2"].result.details # <<>>


\* the call of create_default_model has returned
FactoryReturned == call.fn = "create_default_model" /\ call.pc = "returned"

\* the version probe answered HTTP 200
ProbeAnswered200 == call.probe.raises = "none" /\ call.probe.status_code = 200

\* C23: create_default_model returns the Moonshot adapter whenever a
\* Moonshot key is configured, otherwise the OpenAI adapter whenever an
\* OpenAI key is configured, otherwise the Ollama adapter if and only if the
\* version probe answers HTTP 200, and otherwise (another status, a timeout,
\* any exception of the probe) the Mock provider.
C23_FactoryPrecedence ==
    FactoryReturned =>
        LET cloud_b == call.MOONSHOT_API_KEY \notin {Unset, ""}
            cloud_a == call.OPENAI_API_KEY \notin {Unset, ""} IN
            /\ cloud_b => call.result = "MoonshotModel"
            /\ (~cloud_b /\ cloud_a) => call.result = "OpenAIModel"
            /\ (~cloud_b /\ ~cloud_a) =>
                   /\ (call.result = "OllamaModel") <=> ProbeAnswered200
                   /\ ~ProbeAnswered200 => call.result = "MockAIModel"

\* both keys are configured and the Moonshot adapter was returned
C23_Witness ==
    /\ FactoryReturned
    /\ call.MOONSHOT_API_KEY = "k"
    /\ call.OPENAI_API_KEY = "k"
    /\ call.result = "MoonshotModel"


\* the set of the last k elements of a sequence
LastOf(msgs, k) ==
    {msgs[i] : i \in (Len(msgs) - Min(k, Len(msgs)) + 1)..Len(msgs)}

\* C24: GET history with limit L for a conversation holding n messages is
\* rejected with HTTP 400 without reading the store when L < 1 or L > 100;
\* otherwise the response holds exactly min(L, n) messages, the most
\* recently appended ones, message_count equal to that number and limit
\* echoed as L; for an id not in the store it is 200 with 0 messages and the
\* conversation is not created.
C24_HistoryLimit ==
    (/\ call.fn = "get_conversation_history"
     /\ call.pc = "returned"
     /\ call.conversation_id \notin BlankIds) =>
        LET L == call.limit
            msgs == Messages(call.conversation_id)
            r == call.response IN
            IF L < 1 \/ L > 100
            THEN r.status_code = 400 /\ ~r.store_read
            ELSE /\ r.status_code = 200
                 /\ Len(r.messages) = Min(L, Len(msgs))
                 /\ {r.messages[i] : i \in 1..Len(r.messages)} = LastOf(msgs, L)
                 /\ r.message_count = Min(L, Len(msgs))
                 /\ r.limit = L
                 /\ call.conversation_id \notin DOMAIN conversations =>
                        r.message_count = 0


\* C25: the streaming endpoint writes exactly one "data: <json>" SSE event
\* per StreamChunk produced by the engine's streaming pipeline, in the same
\* order.
C25_OneSseEventPerChunk ==
    \A t \in StreamTurns :
        LET route == call.routes[t] IN
            /\ Len(route.written) = route.taken
            /\ \A i \in 1..route.taken : route.written[i] = streams[t].events[i]


\* content that is non-empty, has no surrounding whitespace and is at most
\* 10,000 characters long
ContentInvariant(content) ==
    /\ content # <<>>
    /\ Head(content) # SP
    /\ content[Len(content)] # SP
    /\ StrLen(content) <= 10000

\* content that is empty, whitespace-only or too long
ContentRefused(v) ==
    \/ v = <<>>
    \/ \A i \in 1..Len(v) : v[i] = SP
    \/ StrLen(v) > 10000

\* a turn is about to append its reply
AboutToSave(t) == streams[t].pc = "save_locked" /\ lock = t

\* C26: in every reachable state every stored Message has content that is
\* non-empty, has no leading or trailing whitespace and is at most 10,000
\* characters long; an append whose content is empty, whitespace-only or too
\* long fails with a validation error and stores no message.
C26_StoredContentValid ==
    [][/\ \A cid \in DOMAIN conversations' :
             \A i \in 1..Len(conversations'[cid].messages) :
                 ContentInvariant(conversations'[cid].messages[i].content)
       /\ \A t \in StreamTurns :
             (AboutToSave(t) /\ ContentRefused(streams[t].full_response)) =>
                 /\ \A cid \in DOMAIN conversations :
                        conversations'[cid].messages = conversations[cid].messages
                 /\ \A cid \in DOMAIN conversations' \ DOMAIN conversations :
                        conversations'[cid].messages = <<>>
                 /\ Last(streams'[t].events) = WarningEvent]_vars

\* a conversation holds the trimmed form of an input that had trailing
\* whitespace, and the append of a refused reply to it has failed
C26_Witness ==
    \E t \in StreamTurns :
        /\ streams[t].pc = "warning_yielded"
        /\ streams[t].user_input = <<"a", SP>>
        /\ ContentRefused(streams[t].full_response)
        /\ Len(Messages(streams[t].conversation_id)) = 1
        /\ Messages(streams[t].conversation_id)[1].content = <<"a">>


\* C27: for every Message and every Conversation x, from_dict(to_dict(x))
\* equals x in id, content, type, conversation id, metadata, timestamps and
\* the ordered list of messages, and to_dict does not modify x.
C27_DictRoundTrip ==
    /\ call.x = call.original
    /\ call.pc = "loaded" => call.y = call.original

\* a conversation of two messages, one with an aware timestamp without
\* fraction, has made the round trip
C27_Witness ==
    /\ call.fn = "Conversation"
    /\ call.pc = "loaded"
    /\ Len(call.y.messages) = 2
    /\ call.y.messages[1].timestamp.tz = "utc"
    /\ call.y.messages[1].timestamp.microsecond = "000000"
    /\ call.y.messages[2].type = "AI"


\* the template that ends a returned text
TemplateOf(text) == text[Len(text)]

BodyRefused(body) ==
    \/ ~body.has_message
    \/ body.message = <<>>
    \/ StrLen(body.message) > 1000

\* C29: a POST to the non-streaming chat endpoint whose message is empty,
\* longer than 1000 characters or missing is answered with HTTP 422 before
\* the route body runs: the engine is not invoked, no conversation is
\* created and no message is stored.
C29_InvalidPostRejected ==
    (call.request.pc # "none" /\ BodyRefused(call.request.body)) =>
        /\ call.request.status_code = 422
        /\ \A n \in NonStreamTurns : turns[n] = IdleTurn
        /\ conversations = <<>>

\* a message of 1001 characters was refused after the engine was set up
C29_Witness ==
    /\ workflow
    /\ call.request.pc = "rejected"
    /\ call.request.body.has_message
    /\ StrLen(call.request.body.message) = 1001
    /\ call.request.status_code = 422


\* the pipeline stages of conversation-state preparation: the user message
\* is appended, the trim is applied, the context is built, the guard is left
Preparing(s) == s.pc \in {"guard", "exit", "exit_locked"}

\* the turn has called generate_response_stream and is waiting for or has
\* just yielded a fragment
AtProvider(s) == s.pc \in {"provider", "chunk_yielded"}

UserAppended(t) == ~streams[t].user_message_added /\ streams'[t].user_message_added

\* C31: in a streaming turn, when the append of the user message leaves the
\* conversation with more than 1000 messages, the conversation is cut to
\* its 500 most recently appended messages, in their order and with the
\* turn's user message last, and the context is built from the cut list;
\* with 1000 messages or fewer nothing is removed.
C31_TrimToMostRecent ==
    [][\A t \in StreamTurns :
          UserAppended(t) =>
              LET cid == streams[t].conversation_id
                  before == conversations[cid].messages
                  after == conversations'[cid].messages
                  n == Len(before)
              IN
              /\ after[Len(after)].type = "user"
              /\ after[Len(after)].turn = t
              /\ after[Len(after)].content = Strip(streams[t].user_input)
              /\ IF n + 1 > 1000
                 THEN /\ Len(after) = 500
                      /\ \A i \in 1..499 : after[i] = before[n - 499 + i]
                 ELSE /\ Len(after) = n + 1
                      /\ \A i \in 1..n : after[i] = before[i]
              /\ streams'[t].langchain_messages =
                     ToLangchain(get_recent_messages(conversations'[cid], 10))]_vars

\* a turn has appended its user message to a conversation of more than 1000
\* messages and has left 500
C31_Witness ==
    \E t \in StreamTurns :
        /\ streams[t].user_message_added
        /\ streams[t].pc = "exit"
        /\ Len(conversations["c1"].messages) = 500
        /\ conversations["c1"].messages[1].timestamp > 500


\* the step of a non-streaming turn that builds the history for the provider
ContextBuilt(n) == turns[n].pc = "ctx_locked" /\ turns'[n].pc = "generate"

\* the positions of the (at most) 10 most recently appended messages
RecentWindow(msgs) ==
    {i \in 1..Len(msgs) : i > Len(msgs) - 10}

\* the provider-format entry of a USER or AI message
RoleTagged(m) ==
    [role |-> IF m.type = "user" THEN "human" ELSE "ai", content |-> m.content]

\* history holds one entry for each USER or AI message of the window of
\* msgs and nothing else
OneEntryPerWindowMessage(history, msgs) ==
    /\ Len(history) <= 10
    /\ \A e \in {history[i] : i \in 1..Len(history)}
              \cup {RoleTagged(msgs[i]) : i \in RecentWindow(msgs)} :
          Cardinality({i \in 1..Len(history) : history[i] = e})
              = Cardinality({i \in RecentWindow(msgs) :
                                /\ msgs[i].type \in {"user", "ai"}
                                /\ RoleTagged(msgs[i]) = e})

\* the history a turn by process "by" hands over, msgs being the messages of
\* its conversation when the history is built
HistoryAsClaimed(history, msgs, by) ==
    /\ OneEntryPerWindowMessage(history, msgs)
    /\ \A e \in {history[i] : i \in 1..Len(history)} : e.role \in {"human", "ai"}
    /\ msgs[Len(msgs)].turn = by
    /\ msgs[Len(msgs)].type = "user"
    /\ \E i \in 1..Len(history) : history[i] = RoleTagged(msgs[Len(msgs)])
    /\ (\A i \in 1..Len(msgs) : msgs[i].type \in {"user", "ai"})
           => \A k \in 1..(MaxPriorTurns + 3) :
                  Len(msgs) = 2 * k - 1
                      => Len(history) = (IF 2 * k - 1 < 10 THEN 2 * k - 1 ELSE 10)

FormatsAfterFailure(n) ==
    /\ turns[n].pc = "add_ai_locked"
    /\ turns[n].error = "Exception"
    /\ turns'[n].pc # "add_ai_locked"

\* C33: when the provider's generate_response raises during a non-streaming
\* turn, the exception stays inside the generate_response stage: the turn
\* goes on to format_output, the apology text with the exception message is
\* appended to the conversation as the AI message and is the response of
\* the ChatResponse, whose processing_time is the measured one and not 0.0.
C33_ProviderFailureBecomesReply ==
    [][\A n \in NonStreamTurns :
          /\ (turns[n].pc = "generate" /\ turns'[n].error = "Exception")
                 => /\ turns'[n].pc = "add_ai"
                    /\ turns'[n].ai_response[1] = GENERATE_APOLOGY
          /\ FormatsAfterFailure(n) =>
                 LET stored == conversations'[turns[n].conversation_id].messages
                     r == turns'[n].final_response IN
                 /\ turns'[n].pc = "done"
                 /\ stored # <<>>
                 /\ stored[Len(stored)].type = "ai"
                 /\ stored[Len(stored)].turn = n
                 /\ stored[Len(stored)].content = Strip(turns[n].ai_response)
                 /\ r.kind = "final"
                 /\ r.response = turns[n].ai_response
                 /\ r.processing_time = "measured"]_vars


\* the class the claim gives to a failure of the stream
ClassAsClaimed(e) ==
    CASE e.class = "asyncio.TimeoutError" -> "TimeoutError"
      [] e.class = "ConnectionError" -> "ConnectionError"
      [] e.class = "ValueError" -> "ValueError"
      [] OTHER ->
           CASE e.mentions \cap {"unauthorized", "api_key"} # {} -> "ValueError"
             [] e.mentions \cap {"rate_limit", "quota"} # {} -> "Exception"
             [] {"model", "not found"} \subseteq e.mentions -> "ValueError"
             [] "timeout" \in e.mentions -> "TimeoutError"
             [] e.mentions \cap {"connection", "network"} # {} -> "ConnectionError"
             [] OTHER -> "Exception"

\* C34: generate_response_stream of the OpenAI and Moonshot adapters raises
\* a ValueError without contacting the service when no API key is configured
\* or the history is empty; a failure of the stream is always raised again,
\* as TimeoutError for the timeout type, ConnectionError for the connection
\* type, ValueError for a ValueError, and otherwise by its message:
\* unauthorized/api_key -> ValueError (authentication), rate_limit/quota ->
\* Exception (rate limit), model and not found -> ValueError, timeout ->
\* TimeoutError, connection/network -> ConnectionError, else Exception.
C34_CloudStreamFailures ==
    call.fn = "generate_response_stream" =>
        /\ (call.pc # "called" /\ (~call.api_key \/ call.messages = <<>>))
               => /\ call.pc = "raised"
                  /\ call.raised.class = "ValueError"
                  /\ ~call.contacted
                  /\ call.yielded = 0
        /\ call.failure # NoStreamFailure
               => /\ call.pc = "raised"
                  /\ call.raised.class = ClassAsClaimed(call.failure)
                  /\ (call.failure.class = "Exception"
                      /\ call.failure.mentions \cap {"unauthorized", "api_key"} # {})
                         => call.raised.reports = "authentication_failed"
                  /\ (call.failure.class = "Exception"
                      /\ call.failure.mentions \cap {"unauthorized", "api_key"} = {}
                      /\ call.failure.mentions \cap {"rate_limit", "quota"} # {})
                         => call.raised.reports = "rate_limit"
        /\ call.pc = "returned" => call.failure = NoStreamFailure /\ call.contacted

\* after a fragment the stream failed with an exception that mentions both a
\* quota and an API key, and the adapter raised a ValueError
C34_Witness ==
    /\ call.fn = "generate_response_stream"
    /\ call.pc = "raised"
    /\ call.yielded = 1
    /\ call.failure.class = "Exception"
    /\ call.failure.mentions = {"quota", "api_key"}
    /\ call.raised = StreamError("ValueError", "authentication_failed")


C36_MarkedConversationsAreStored ==
    active_streams \subseteq DOMAIN conversations

\* a conversation is marked as streaming while a caller of
\* clear_conversation holds the lock for it and a non-streaming turn is
\* under way on it
C36_Witness ==
    /\ "c1" \in active_streams
    /\ \E k \in Clients : clients[k].pc = "locked" /\ clients[k].conversation_id = "c1"
    /\ turns["n1"].conversation_id = "c1"
    /\ turns["n1"].pc = "generate"


\* conversation id d is stored, holds the same messages with the same
\* timestamps, and is marked, after the step exactly as before it
Untouched(d) ==
    /\ (d \in DOMAIN conversations) = (d \in DOMAIN conversations')
    /\ d \in DOMAIN conversations => conversations'[d] = conversations[d]
    /\ (d \in active_streams) = (d \in active_streams')

\* C37: every operation of the engine on a conversation id (a step of a
\* streaming turn, of a non-streaming turn, of clear_conversation or of a
\* history read) leaves the message list, the timestamps and the streaming
\* mark of every other conversation id unchanged.
C37_OtherConversationsUntouched ==
    [][/\ \A t \in StreamTurns :
             streams'[t] # streams[t] =>
                 \A d \in ConversationIds \ {streams'[t].conversation_id} : Untouched(d)
       /\ \A n \in NonStreamTurns :
             turns'[n] # turns[n] =>
                 \A d \in ConversationIds \ {turns'[n].conversation_id} : Untouched(d)
       /\ \A k \in Clients \cup Readers :
             clients'[k] # clients[k] =>
                 \A d \in ConversationIds \ {clients'[k].conversation_id} : Untouched(d)]_vars

\* two conversations hold messages, one is cleared and the other keeps its
\* two messages
C37_Witness ==
    /\ \E k \in Clients : /\ clients[k].result = "True"
                          /\ clients[k].conversation_id = "c1"
                          /\ clients[k].pc = "idle"
    /\ "c1" \notin DOMAIN conversations
    /\ GenId("s1") \in DOMAIN conversations
    /\ Len(conversations[GenId("s1")].messages) = 2
    /\ turns["n1"].conversation_id = "c1"
    /\ turns["n1"].pc = "done"


\* turn record s called the provider with a history and ended with an
\* `error` event
FailedAtProvider(s) ==
    /\ s.pc = "done"
    /\ s.user_message_added
    /\ s.langchain_messages # <<>>
    /\ s.events[Len(s.events)].type = "error"

\* the messages of type mtype that turn t appended, as store convs holds them
StoredBy(convs, t, mtype) ==
    {m \in UNION {{convs[cid].messages[i] : i \in 1..Len(convs[cid].messages)} :
                     cid \in DOMAIN convs} :
        m.turn = t /\ m.type = mtype}

\* C38: a streaming turn that ends with an `error` event at or after the
\* provider call (provider failure, empty stream, cancellation) has stored no
\* AI message, and the USER message it appended is still in the
\* conversation: no step of the turn undoes the append.
C38_FailedTurnKeepsUserMessage ==
    [][\A t \in StreamTurns :
          /\ FailedAtProvider(streams'[t]) => StoredBy(conversations', t, "ai") = {}
          /\ (streams'[t] # streams[t] /\ streams[t].user_message_added)
                 => StoredBy(conversations, t, "user")
                        \subseteq StoredBy(conversations', t, "user")
          /\ (streams'[t] # streams[t] /\ FailedAtProvider(streams'[t]))
                 => conversations' = conversations]_vars

\* a turn received a fragment, then its provider raised: the conversation
\* holds the turn's user message and nothing else
C38_Witness ==
    /\ FailedAtProvider(streams["s1"])
    /\ streams["s1"].chunk_index = 1
    /\ streams["s1"].events[Len(streams["s1"].events)].error_category = "ai_model_timeout"
    /\ streams["s1"].conversation_id = "c1"
    /\ "c1" \in DOMAIN conversations
    /\ Len(conversations["c1"].messages) = 1
    /\ conversations["c1"].messages[1].type = "user"
    /\ conversations["c1"].messages[1].turn = "s1"


\* C39: in every reachable state of the store, each AI message a turn
\* appended is preceded in its conversation by the USER message of the same
\* turn, in every interleaving of streaming turns, non-streaming turns and
\* clear_conversation calls on the conversation id (no conversation of the
\* model is long enough to be trimmed).
C39_AiMessageFollowsItsUserMessage ==
    \A cid \in DOMAIN conversations :
        LET msgs == conversations[cid].messages IN
        \A i \in 1..Len(msgs) :
            msgs[i].type = "ai" =>
                \E j \in 1..(i - 1) :
                    msgs[j].type = "user" /\ msgs[j].turn = msgs[i].turn


\* the contents of the entries of a history
ContentsOf(history) == [p \in 1..Len(history) |-> history[p].content]

\* the history a turn by process "by" built from msgs is the window of msgs
\* from the newest message to the oldest
NewestFirst(history, msgs, by) ==
    LET n == Len(msgs)
        oldest == msgs[IF n > 10 THEN n - 9 ELSE 1] IN
    ((\A i, j \in 1..n : i < j => msgs[i].timestamp < msgs[j].timestamp)
     /\ (\A i \in RecentWindow(msgs) : msgs[i].type \in {"user", "ai"}))
        => /\ Len(history) = Cardinality(RecentWindow(msgs))
           /\ \A p \in 1..Len(history) : history[p] = RoleTagged(msgs[n + 1 - p])
           /\ msgs[n].turn = by
           /\ history[1] = RoleTagged(msgs[n])
           /\ history[Len(history)] = RoleTagged(oldest)
           /\ MockGenerate(MockAIModel, ContentsOf(history))
                  = MockGenerate(MockAIModel, <<oldest.content>>)

====
